---- MODULE Spec2Model ----
(***************************************************************************)
(* Model of the coordinator of ble-collar-remote: the node pool            *)
(* (lib/node-pool.js), the agent links handed to it by server.js and the   *)
(* routing of writes between the local BLE endpoint and the active node;   *)
(* besides, a forwarder (forwarder.js) with its reconnect backoff and its  *)
(* BleDevice (connect, disconnect), and the encoding of commands.          *)
(*                                                                         *)
(* Node.js runs every handler to completion, so each action below is one   *)
(* whole handler (an incoming message, a link event, a timer callback or   *)
(* an API call) including every method it calls.  Methods that call each   *)
(* other (addNode -> removeNode -> triggerHandoff -> _sendToNode) are      *)
(* operators on a record holding the pool's fields.                        *)
(*                                                                         *)
(* Timers are kept in arming order.  Time itself is not modelled: a timer  *)
(* may fire whenever no timer armed before it with the same or a shorter   *)
(* delay is still pending (election delay < retry delay).                  *)
(***************************************************************************)
EXTENDS Integers, Sequences, FiniteSets, TLC

\* ------------------------------------------------------------------ bounds
MaxLinks == 2
MaxTimers == 3
MaxCommands == 2
MaxDevices == 1
MaxResend == 1
MaxAttempts == 7
MaxConnects == 2
MaxRetryTimers == 1
MaxRequests == 1
MaxWrites == 2

\* ---------------------------------------------------------- program constants
\* let reconnectDelay = 1000
INITIAL_RECONNECT_DELAY == 1000
MAX_RECONNECT_DELAY == 30000
\* PROTOCOL and LIMITS
CMD_START == 170
CMD_TYPE == 7
CMD_END == 187
FIND_START == 238
FIND_TYPE == 2
MIN_VALUE == 0
MAX_VALUE == 100

\* ------------------------------------------------------------ value spaces
NodeIds == {"A", "B"}
None == "none"
Links == 1..MaxLinks
Rssi == {-70, -50}
\* msg.level of a battery message
BatteryLevels == {20, 80}
Frames == {"aa07320000bb"}
\* [CMD_START, CMD_TYPE, shock, vibro, sound, CMD_END] with shock = 50
CommandFrame == "aa07320000bb"
\* [FIND_START, FIND_TYPE, CMD_END]
FindFrame == "ee02bb"
\* [BATTERY_START, BATTERY_TYPE, CMD_END]
BatteryFrame == "ddaabb"
\* AUTH_ENABLED: a token is configured
AuthEnabled == TRUE

\* a device of a scan_result: rssi is a number (num) or something else
Devices == [num : {TRUE}, rssi : Rssi] \cup {[num |-> FALSE, rssi |-> 0]}

RECURSIVE SeqsUpTo(_, _)
SeqsUpTo(S, n) ==
  IF n = 0 THEN {<<>>}
  ELSE LET shorter == SeqsUpTo(S, n - 1)
       IN  shorter \cup {Append(s, x) : s \in {t \in shorter : Len(t) = n - 1}, x \in S}

DeviceLists == SeqsUpTo(Devices, MaxDevices)

\* an entry of devices that is null: reading its rssi is a TypeError
NullDevice == [num |-> FALSE, rssi |-> 0, isNull |-> TRUE]
\* the device lists an agent can put into a scan_result, well-formed or not
RawDeviceLists == SeqsUpTo(Devices \cup {NullDevice}, MaxDevices)

\* what a link can deliver that is no message: text that is not JSON, the JSON
\* null, a JSON number, an object without type, an object whose type is a number
RawMessages ==
  {[json |-> FALSE, value |-> "none", typeOfType |-> "undefined"],
   [json |-> TRUE, value |-> "null", typeOfType |-> "undefined"],
   [json |-> TRUE, value |-> "number", typeOfType |-> "undefined"],
   [json |-> TRUE, value |-> "object", typeOfType |-> "undefined"],
   [json |-> TRUE, value |-> "object", typeOfType |-> "number"]}

\* values of the bleConnected field of a status message that are strings
WrongTypedFlags == {"false", ""}

VARIABLES
  nodes,               \* this._nodes: nodeId -> NodeEntry (a Map: DOMAIN = keys)
  links,               \* every agent WebSocket: its state and the nodeId its pool handlers captured
  activeNodeId,        \* this._activeNodeId
  handoffInProgress,   \* this._handoffInProgress
  handoffTimer,        \* this._handoffTimer is not null
  timers,              \* pending setTimeout timers of triggerHandoff, in arming order
  pendingScanResults,  \* this._pendingScanResults: null or a Map in insertion order
  commandCounter,      \* this._commandCounter
  pendingCommands,     \* keys of this._pendingCommands
  commandTimers,       \* ids whose 5 s timer of sendCommand is pending
  promises,            \* the promise sendCommand returned for each id, by id
  txChar,              \* the local BleDevice has a TX characteristic (isConnected())
  resendTimers,        \* pending 300 ms timers of the server's sendCommand, in arming order
  wire,                \* per link: ids of the command messages on their way to the agent
  conns,               \* per link: the closure of wss.on('connection') and the auth_results sent
  submitted,           \* frames handed to bleWriteAsync by the last step
  agentWrote,          \* commands an agent handed to its BLE write in the last step
  sent,                \* messages sent to nodes by the last step, in order
  emitted,             \* active:changed, no:active, battery and rssi events emitted in the last step, in order
  hcall,               \* triggerHandoff calls of the last step: the flag each found
  wrote,               \* frames written to the local endpoint by the last step
  ret,                 \* what bleWriteAsync returned in the last step
  crashed,             \* an exception left a callback of the coordinator uncaught
  agent,               \* a forwarder: its link to the coordinator and its reconnect backoff
  dev,                 \* the forwarder's BleDevice, followed through connect()
  encoded,             \* the last command sendCommand encoded: its inputs and its frame
  requests,            \* pending promises of requestBattery and requestRssi, in arming order of their 3 s timers
  answers,             \* what promises of requestBattery and requestRssi were resolved with in the last step
  agentSent            \* messages the forwarder sent to the coordinator in the last step

vars == <<nodes, links, activeNodeId, handoffInProgress, handoffTimer, timers,
          pendingScanResults, commandCounter, pendingCommands, commandTimers,
          promises, txChar, resendTimers, wire, conns, submitted, agentWrote,
          sent, emitted, hcall, wrote, ret, crashed, agent, dev, encoded,
          requests, answers, agentSent>>

\* ------------------------------------------------------------------ helpers
EmptyNodes == [k \in {} |-> 0]
NullMap == [isNull |-> TRUE, entries |-> <<>>]
EmptyMap == [isNull |-> FALSE, entries |-> <<>>]

Msg(n, w, t, i) == [to |-> n, ws |-> w, type |-> t, id |-> i]
Ev(name, n) == [name |-> name, node |-> n]
\* a 'battery' or 'rssi' event of the pool with its argument
ValueEv(name, v) == [name |-> name, value |-> v]
\* null, and a number, as the value of lastBattery or of a resolved promise
NoValue == [isNull |-> TRUE, level |-> 0]
Value(v) == [isNull |-> FALSE, level |-> v]

\* the pool's fields as one record, threaded through the methods
Cur == [nodes |-> nodes, links |-> links, activeNodeId |-> activeNodeId,
        handoffInProgress |-> handoffInProgress, handoffTimer |-> handoffTimer,
        timers |-> timers, pendingScanResults |-> pendingScanResults,
        commandCounter |-> commandCounter, pendingCommands |-> pendingCommands,
        commandTimers |-> commandTimers, promises |-> promises,
        sent |-> <<>>, emitted |-> <<>>, hcall |-> <<>>, crashed |-> crashed,
        requests |-> requests, answers |-> <<>>]

\* the fields after a handler of the coordinator; no handler runs in a process
\* that an uncaught exception has ended
Commit(s) ==
  /\ ~crashed
  /\ crashed' = s.crashed
  /\ nodes' = s.nodes
  /\ links' = s.links
  /\ activeNodeId' = s.activeNodeId
  /\ handoffInProgress' = s.handoffInProgress
  /\ handoffTimer' = s.handoffTimer
  /\ timers' = s.timers
  /\ pendingScanResults' = s.pendingScanResults
  /\ commandCounter' = s.commandCounter
  /\ pendingCommands' = s.pendingCommands
  /\ commandTimers' = s.commandTimers
  /\ promises' = s.promises
  /\ sent' = s.sent
  /\ emitted' = s.emitted
  /\ hcall' = s.hcall
  /\ requests' = s.requests
  /\ answers' = s.answers

Has(s, n) == n \in DOMAIN s.nodes

\* Map.delete
MapDelete(m, n) == [k \in (DOMAIN m) \ {n} |-> m[k]]
\* Map.set
MapSet(m, n, e) == [k \in (DOMAIN m) \cup {n} |-> IF k = n THEN e ELSE m[k]]

\* ws.close(): an open socket starts closing, its 'close' event comes later
WsClose(ls, w) ==
  [ls EXCEPT ![w].state = IF @ = "open" THEN "closing" ELSE @]

\* _sendToNode(nodeId, type, payload)
SendToNode(s, n, t, i) ==
  IF ~Has(s, n) THEN s
  ELSE [s EXCEPT !.sent = Append(@, Msg(n, s.nodes[n].ws, t, i))]

RECURSIVE Broadcast(_, _, _)
Broadcast(s, todo, t) ==
  IF todo = {} THEN s
  ELSE LET n == CHOOSE x \in todo : TRUE
       IN  Broadcast(SendToNode(s, n, t, 0), todo \ {n}, t)

\* setTimeout of the election and of the retry callback; the retry timer is
\* the one this._handoffTimer now refers to
ArmHandoffTimers(ts) ==
  LET old == [i \in 1..Len(ts) |-> [ts[i] EXCEPT !.held = FALSE]]
  IN  old \o <<[kind |-> "elect", held |-> FALSE], [kind |-> "retry", held |-> TRUE]>>

\* clearTimeout(this._handoffTimer)
ClearHandoffTimer(ts) == SelectSeq(ts, LAMBDA t : ~t.held)

\* triggerHandoff without the test of this._handoffInProgress
TriggerHandoffNoCoalesce(s0) ==
  LET s == [s0 EXCEPT !.hcall = Append(@, s0.handoffInProgress)]
  IN  IF DOMAIN s.nodes = {} THEN [s EXCEPT !.emitted = Append(@, Ev("no:active", None))]
      ELSE LET s1 == [s EXCEPT !.handoffInProgress = TRUE,
                               !.pendingScanResults = EmptyMap]
               s2 == Broadcast(s1, DOMAIN s1.nodes, "scan")
           IN  [s2 EXCEPT !.timers = ArmHandoffTimers(@),
                          !.handoffTimer = TRUE]

\* triggerHandoff without the test for an empty pool
TriggerHandoffOnEmpty(s0) ==
  LET s == [s0 EXCEPT !.hcall = Append(@, s0.handoffInProgress)]
  IN  IF s.handoffInProgress THEN s
      ELSE LET s1 == [s EXCEPT !.handoffInProgress = TRUE,
                               !.pendingScanResults = EmptyMap]
               s2 == Broadcast(s1, DOMAIN s1.nodes, "scan")
           IN  [s2 EXCEPT !.timers = ArmHandoffTimers(@),
                          !.handoffTimer = TRUE]
\* triggerHandoff()
TriggerHandoff(s0) ==
  LET s == [s0 EXCEPT !.hcall = Append(@, s0.handoffInProgress)]
  IN  IF s.handoffInProgress THEN s
      ELSE IF DOMAIN s.nodes = {} THEN [s EXCEPT !.emitted = Append(@, Ev("no:active", None))]
      ELSE LET s1 == [s EXCEPT !.handoffInProgress = TRUE,
                               !.pendingScanResults = EmptyMap]
               s2 == Broadcast(s1, DOMAIN s1.nodes, "scan")
           IN  [s2 EXCEPT !.timers = ArmHandoffTimers(@),
                          !.handoffTimer = TRUE]

\* removeNode that forgets the handoff when the active node goes
RemoveNodeNoHandoff(s, n) ==
  IF ~Has(s, n) THEN s
  ELSE LET entry == s.nodes[n]
           s1 == [s EXCEPT !.links = WsClose(@, entry.ws),
                           !.nodes = MapDelete(@, n)]
       IN  IF entry.isActive THEN [s1 EXCEPT !.activeNodeId = None] ELSE s1

\* removeNode(nodeId)
RemoveNode(s, n) ==
  IF ~Has(s, n) THEN s
  ELSE LET entry == s.nodes[n]
           s1 == [s EXCEPT !.links = WsClose(@, entry.ws),
                           !.nodes = MapDelete(@, n)]
           s2 == IF entry.isActive
                 THEN TriggerHandoff([s1 EXCEPT !.activeNodeId = None])
                 ELSE s1
       IN  s2

\* addNode(ws, nodeId)
AddNode(s, w, n) ==
  LET s1 == IF Has(s, n) THEN RemoveNode(s, n) ELSE s
      entry == [ws |-> w, bleConnected |-> FALSE, isActive |-> FALSE,
                pongReceived |-> TRUE, lastBattery |-> NoValue]
  IN  [s1 EXCEPT !.nodes = MapSet(@, n, entry),
                 !.links = [@ EXCEPT ![w] = [state |-> "open", nodeId |-> n]]]

\* _tryPromoteNode without the test for an incumbent
TryPromoteNodeNoIncumbentTest(s, n) ==
  IF ~Has(s, n) \/ ~s.nodes[n].bleConnected THEN s
  ELSE [s EXCEPT !.nodes[n].isActive = TRUE,
                 !.activeNodeId = n,
                 !.handoffInProgress = FALSE,
                 !.timers = IF s.handoffTimer THEN ClearHandoffTimer(@) ELSE @,
                 !.handoffTimer = FALSE,
                 !.emitted = Append(@, Ev("active:changed", n))]

\* _tryPromoteNode that leaves the handoff flag and the retry timer alone
TryPromoteNodeKeepsHandoff(s, n) ==
  IF ~Has(s, n) \/ ~s.nodes[n].bleConnected THEN s
  ELSE IF s.activeNodeId = None
  THEN [s EXCEPT !.nodes[n].isActive = TRUE,
                 !.activeNodeId = n,
                 !.emitted = Append(@, Ev("active:changed", n))]
  ELSE IF s.activeNodeId # n THEN SendToNode(s, n, "disconnect_ble", 0)
  ELSE s

\* _tryPromoteNode that lets a duplicate connection be
TryPromoteNodeSilent(s, n) ==
  IF ~Has(s, n) \/ ~s.nodes[n].bleConnected THEN s
  ELSE IF s.activeNodeId = None
  THEN [s EXCEPT !.nodes[n].isActive = TRUE,
                 !.activeNodeId = n,
                 !.handoffInProgress = FALSE,
                 !.timers = IF s.handoffTimer THEN ClearHandoffTimer(@) ELSE @,
                 !.handoffTimer = FALSE,
                 !.emitted = Append(@, Ev("active:changed", n))]
  ELSE s

\* _tryPromoteNode(nodeId)
TryPromoteNode(s, n) ==
  IF ~Has(s, n) \/ ~s.nodes[n].bleConnected THEN s
  ELSE IF s.activeNodeId = None
  THEN [s EXCEPT !.nodes[n].isActive = TRUE,
                 !.activeNodeId = n,
                 !.handoffInProgress = FALSE,
                 !.timers = IF s.handoffTimer THEN ClearHandoffTimer(@) ELSE @,
                 !.handoffTimer = FALSE,
                 !.emitted = Append(@, Ev("active:changed", n))]
  ELSE IF s.activeNodeId # n THEN SendToNode(s, n, "disconnect_ble", 0)
  ELSE s

\* the status case without the demotion of an active node that lost the device
HandleStatusNoDemote(s, n, b) ==
  IF ~Has(s, n) THEN s
  ELSE LET wasConnected == s.nodes[n].bleConnected
           s1 == [s EXCEPT !.nodes[n].bleConnected = b]
       IN  IF ~wasConnected /\ b THEN TryPromoteNode(s1, n) ELSE s1

\* _handleNodeMessage, case MSG_STATUS
HandleStatus(s, n, b) ==
  IF ~Has(s, n) THEN s
  ELSE LET wasConnected == s.nodes[n].bleConnected
           s1 == [s EXCEPT !.nodes[n].bleConnected = b]
           s2 == IF ~wasConnected /\ b THEN TryPromoteNode(s1, n) ELSE s1
       IN  IF wasConnected /\ ~b /\ s2.nodes[n].isActive
           THEN TriggerHandoff([s2 EXCEPT !.nodes[n].isActive = FALSE,
                                          !.activeNodeId = None])
           ELSE s2

\* Map.set on this._pendingScanResults: a known key keeps its place
ScanSet(entries, n, devices) ==
  IF \E i \in 1..Len(entries) : entries[i].nodeId = n
  THEN [i \in 1..Len(entries) |->
          IF entries[i].nodeId = n THEN [nodeId |-> n, devices |-> devices]
          ELSE entries[i]]
  ELSE Append(entries, [nodeId |-> n, devices |-> devices])

\* _handleNodeMessage, case MSG_SCAN_RESULT
HandleScanResult(s, n, devices) ==
  IF ~Has(s, n) \/ s.pendingScanResults.isNull THEN s
  ELSE [s EXCEPT !.pendingScanResults.entries = ScanSet(@, n, devices)]

\* this.emit(name, v): the listeners that requestBattery or requestRssi
\* registered with once(name) are called, each resolves its promise with v
\* and clears its timer
Emit(s, name, v) ==
  LET hit == SelectSeq(s.requests, LAMBDA r : r.kind = name)
  IN  [s EXCEPT !.emitted = Append(@, ValueEv(name, v)),
                !.requests = SelectSeq(@, LAMBDA r : r.kind # name),
                !.answers = @ \o [i \in 1..Len(hit) |->
                                    [kind |-> name, value |-> Value(v)]]]

\* entry.lastBattery = msg.level, seen also by the requests that hold this
\* entry
SetLastBattery(s, n, level) ==
  [s EXCEPT !.nodes[n].lastBattery = Value(level),
            !.requests = [i \in 1..Len(@) |->
                            IF @[i].node = n /\ @[i].ws = s.nodes[n].ws
                            THEN [@[i] EXCEPT !.last = Value(level)]
                            ELSE @[i]]]

\* the battery case without the test of entry.isActive
HandleBatteryUnfiltered(s, n, level) ==
  IF ~Has(s, n) THEN s
  ELSE Emit(SetLastBattery(s, n, level), "battery", level)

\* _handleNodeMessage, case MSG_BATTERY
HandleBattery(s, n, level) ==
  IF ~Has(s, n) THEN s
  ELSE LET s1 == SetLastBattery(s, n, level)
       IN  IF s.nodes[n].isActive THEN Emit(s1, "battery", level) ELSE s1

\* _handleNodeMessage, case MSG_RSSI
HandleRssi(s, n, value) ==
  IF ~Has(s, n) THEN s
  ELSE IF s.nodes[n].isActive THEN Emit(s, "rssi", value) ELSE s
\* resolve(value) of the promise of command id: a settled promise stays as it is
Resolve(ps, id, value) ==
  IF id \in 1..Len(ps) /\ ps[id] = "pending"
  THEN [ps EXCEPT ![id] = IF value THEN "true" ELSE "false"]
  ELSE ps

\* the command_result case without clearTimeout(pending.timer)
HandleCommandResultKeepsTimer(s, n, id, success) ==
  IF ~Has(s, n) \/ id \notin s.pendingCommands THEN s
  ELSE [s EXCEPT !.pendingCommands = @ \ {id},
                 !.promises = Resolve(@, id, success)]

\* _handleNodeMessage, case MSG_COMMAND_RESULT
HandleCommandResult(s, n, id, success) ==
  IF ~Has(s, n) \/ id \notin s.pendingCommands THEN s
  ELSE [s EXCEPT !.commandTimers = @ \ {id},
                 !.pendingCommands = @ \ {id},
                 !.promises = Resolve(@, id, success)]

\* the orders in which a Map with keys S can be iterated: insertion order,
\* which is any order of its keys
Orders(S) ==
  {q \in SeqsUpTo(S, Cardinality(S)) :
     Len(q) = Cardinality(S) /\ {q[i] : i \in 1..Len(q)} = S}

\* for (const [nodeId] of this._nodes) this.removeNode(nodeId)
RECURSIVE RemoveAll(_, _)
RemoveAll(s, order) ==
  IF order = <<>> THEN s
  ELSE RemoveAll(RemoveNode(s, Head(order)), Tail(order))

\* pending.resolve(false) for every entry of this._pendingCommands
RECURSIVE ResolveAll(_, _)
ResolveAll(ps, ids) ==
  IF ids = {} THEN ps
  ELSE LET id == CHOOSE x \in ids : TRUE
       IN  ResolveAll(Resolve(ps, id, FALSE), ids \ {id})

\* destroy(), the nodes removed in the given order
Destroy(s, order) ==
  LET s1 == IF s.handoffTimer
            THEN [s EXCEPT !.timers = ClearHandoffTimer(@), !.handoffTimer = FALSE]
            ELSE s
      s2 == RemoveAll(s1, order)
  IN  [s2 EXCEPT !.commandTimers = @ \ s2.pendingCommands,
                 !.promises = ResolveAll(@, s2.pendingCommands),
                 !.pendingCommands = {}]
\* the inner loop with >= for >: on equal rssi the later result wins
RECURSIVE BestOfDevicesLastWins(_, _, _, _)
BestOfDevicesLastWins(devices, i, n, best) ==
  IF i > Len(devices) THEN best
  ELSE LET d == devices[i]
           better == d.num /\ (best.nodeId = None \/ d.rssi >= best.rssi)
       IN  BestOfDevicesLastWins(devices, i + 1, n,
                                 IF better THEN [nodeId |-> n, rssi |-> d.rssi] ELSE best)

\* the inner loop of _electNode over one node's devices
RECURSIVE BestOfDevices(_, _, _, _)
BestOfDevices(devices, i, n, best) ==
  IF i > Len(devices) THEN best
  ELSE LET d == devices[i]
           better == d.num /\ (best.nodeId = None \/ d.rssi > best.rssi)
       IN  BestOfDevices(devices, i + 1, n,
                         IF better THEN [nodeId |-> n, rssi |-> d.rssi] ELSE best)

\* the outer loop of _electNode over this._pendingScanResults
RECURSIVE BestOfResults(_, _, _, _)
BestOfResults(s, entries, i, best) ==
  IF i > Len(entries) THEN best
  ELSE LET e == entries[i]
       IN  BestOfResults(s, entries, i + 1,
                         IF ~Has(s, e.nodeId) THEN best
                         ELSE BestOfDevices(e.devices, 1, e.nodeId, best))

\* bestNodeId = null, bestRssi = -Infinity (rssi is unused while nodeId is None)
NoBest == [nodeId |-> None, rssi |-> 0]

\* the loops of _electNode read device.rssi of a null entry of a node that is
\* still in the pool
ElectThrows(s) ==
  \E i \in 1..Len(s.pendingScanResults.entries) :
    LET e == s.pendingScanResults.entries[i]
    IN  /\ Has(s, e.nodeId)
        /\ \E j \in 1..Len(e.devices) : e.devices[j] = NullDevice

\* _electNode that makes its winner the active node itself
ElectNodePromotes(s) ==
  IF s.pendingScanResults.isNull THEN s
  ELSE IF ElectThrows(s) THEN [s EXCEPT !.crashed = TRUE]
  ELSE LET best == BestOfResults(s, s.pendingScanResults.entries, 1, NoBest)
           s1 == [s EXCEPT !.pendingScanResults = NullMap]
       IN  IF best.nodeId = None THEN s1
           ELSE SendToNode([s1 EXCEPT !.activeNodeId = best.nodeId,
                                      !.nodes[best.nodeId].isActive = TRUE],
                           best.nodeId, "connect", 0)
\* _electNode(); a TypeError leaves the timer callback before the results are
\* cleared, and nothing catches it
ElectNode(s) ==
  IF s.pendingScanResults.isNull THEN s
  ELSE IF ElectThrows(s) THEN [s EXCEPT !.crashed = TRUE]
  ELSE LET best == BestOfResults(s, s.pendingScanResults.entries, 1, NoBest)
           s1 == [s EXCEPT !.pendingScanResults = NullMap]
       IN  IF best.nodeId = None THEN s1
           ELSE SendToNode(s1, best.nodeId, "connect", 0)

\* getActiveNode(): the id of the entry it returns, None for null
GetActiveNode(s) ==
  IF s.activeNodeId = None THEN None
  ELSE IF Has(s, s.activeNodeId) THEN s.activeNodeId ELSE None

\* requestBattery(): the promise holds the active entry for its timeout
PoolRequestBattery(s) ==
  LET a == GetActiveNode(s)
  IN  IF a = None
      THEN [s EXCEPT !.answers = Append(@, [kind |-> "battery", value |-> NoValue])]
      ELSE SendToNode([s EXCEPT !.requests =
                         Append(@, [kind |-> "battery", node |-> a,
                                    ws |-> s.nodes[a].ws,
                                    last |-> s.nodes[a].lastBattery])],
                      a, "get_battery", 0)

\* requestRssi(): its timeout resolves null
PoolRequestRssi(s) ==
  LET a == GetActiveNode(s)
  IN  IF a = None
      THEN [s EXCEPT !.answers = Append(@, [kind |-> "rssi", value |-> NoValue])]
      ELSE SendToNode([s EXCEPT !.requests =
                         Append(@, [kind |-> "rssi", node |-> a,
                                    ws |-> s.nodes[a].ws, last |-> NoValue])],
                      a, "get_rssi", 0)
\* sendCommand taking the first id that is not pending
PoolSendCommandReusesId(s) ==
  LET active == GetActiveNode(s)
  IN  IF active = None THEN s
      ELSE LET id == CHOOSE i \in 1..(Cardinality(s.pendingCommands) + 1) :
                       i \notin s.pendingCommands
           IN  SendToNode([s EXCEPT !.commandCounter = IF id > @ THEN id ELSE @,
                                    !.commandTimers = @ \cup {id},
                                    !.pendingCommands = @ \cup {id},
                                    !.promises = IF id > Len(@) THEN Append(@, "pending")
                                                 ELSE [@ EXCEPT ![id] = "pending"]],
                          active, "command", id)

\* NodePool.sendCommand(data)
PoolSendCommand(s) ==
  LET active == GetActiveNode(s)
  IN  IF active = None THEN s
      ELSE LET id == s.commandCounter + 1
           IN  SendToNode([s EXCEPT !.commandCounter = id,
                                    !.commandTimers = @ \cup {id},
                                    !.pendingCommands = @ \cup {id},
                                    !.promises = Append(@, "pending")],
                          active, "command", id)

\* parseMessage(raw) returns a message (TRUE) or null (FALSE)
ParseMessage(raw) ==
  /\ raw.json
  /\ raw.value \notin {"null"}
  /\ raw.typeOfType = "string"

\* !!value of a string
ToBoolean(str) == str # ""

\* ------------------------------------------------------------------ actions
\* the closure of wss.on('connection') before the link exists
NoConn == [authenticated |-> FALSE, authTimeout |-> FALSE, authResults |-> 0]
\* the closure after a successful auth: flag set, timer cleared, one auth_result sent
AuthedConn == [authenticated |-> TRUE, authTimeout |-> FALSE, authResults |-> 1]

\* the handler calls neither bleWriteAsync nor an agent's BLE write
Silent == /\ wrote' = <<>>
          /\ ret' = "none"
          /\ submitted' = <<>>
          /\ agentWrote' = <<>>
          /\ agentSent' = <<>>
          /\ UNCHANGED <<txChar, resendTimers, agent, dev, encoded>>

Quiet == /\ Silent
         /\ UNCHANGED <<wire, conns>>

Fits(s) == Len(s.timers) <= MaxTimers

\* the links whose 'message', 'pong', 'close' and 'error' handlers of addNode
\* can still run
Attached(w) == links[w].state \in {"open", "closing"}

\* wss.on('connection') up to a successful auth: the link is handed to the pool
Register(w, n) ==
  /\ links[w].state = "idle"
  /\ LET s == AddNode(Cur, w, n)
     IN  /\ Fits(s)
         /\ Commit(s)
  /\ Silent
  /\ conns' = [conns EXCEPT ![w] = AuthedConn]
  /\ UNCHANGED wire

\* wss.on('connection'): a link opens, its auth timer is armed
LinkOpen(w) ==
  /\ links[w].state = "idle"
  /\ Commit([Cur EXCEPT !.links[w].state = "unauth"])
  /\ conns' = [conns EXCEPT ![w] = [authenticated |-> FALSE, authTimeout |-> TRUE,
                                     authResults |-> 0]]
  /\ Silent
  /\ UNCHANGED wire

\* what a link can send first: something that is not JSON with a type, a
\* message of another type, an auth with a wrong token, an auth with the token
AuthKinds == {"garbage", "other", "badtoken", "auth"}

\* ws.send(auth_result): a socket that is closing transmits nothing
AuthSend(c, state) ==
  IF state = "unauth" THEN [c EXCEPT !.authResults = @ + 1] ELSE c

\* ws.on('message') of wss.on('connection') while authenticated is false; a
\* socket on which close() was called still delivers what the peer had sent
ServerMessage(w, kind, n) ==
  /\ links[w].state \in {"unauth", "unauth_closing"}
  /\ ~conns[w].authenticated
  /\ IF kind = "garbage"
     THEN /\ Commit(Cur)
          /\ UNCHANGED conns
     ELSE IF kind = "other" \/ (kind = "badtoken" /\ AuthEnabled)
     THEN /\ Commit([Cur EXCEPT !.links[w].state = "unauth_closing"])
          /\ conns' = [conns EXCEPT ![w] = AuthSend(@, links[w].state)]
     ELSE /\ LET s == AddNode(Cur, w, n)
                 s1 == IF links[w].state = "unauth_closing"
                       THEN [s EXCEPT !.links[w].state = "closing"]
                       ELSE s
             IN  /\ Fits(s1)
                 /\ Commit(s1)
          /\ conns' = [conns EXCEPT ![w] =
                         [AuthSend(@, links[w].state) EXCEPT !.authenticated = TRUE,
                                                             !.authTimeout = FALSE]]
  /\ Silent
  /\ UNCHANGED wire

\* the authTimeout callback of wss.on('connection')
AuthTimeout(w) ==
  /\ conns[w].authTimeout
  /\ conns' = [conns EXCEPT ![w].authTimeout = FALSE]
  /\ Commit(IF ~conns[w].authenticated /\ links[w].state = "unauth"
            THEN [Cur EXCEPT !.links[w].state = "unauth_closing"]
            ELSE Cur)
  /\ Silent
  /\ UNCHANGED wire

\* ws.on('close') of wss.on('connection') for a link the pool never got
UnauthClose(w) ==
  /\ links[w].state \in {"unauth", "unauth_closing"}
  /\ Commit([Cur EXCEPT !.links[w] = [state |-> "idle", nodeId |-> None]])
  /\ conns' = [conns EXCEPT ![w] = NoConn]
  /\ Silent
  /\ UNCHANGED wire

\* ws.on('message') of addNode with a status message
Status(w, b) ==
  /\ Attached(w)
  /\ LET s == HandleStatus(Cur, links[w].nodeId, b)
     IN  /\ Fits(s)
         /\ Commit(s)
  /\ Quiet

\* ws.on('message') of addNode with a status message whose bleConnected is a string
StatusWrongType(w, v) ==
  /\ Attached(w)
  /\ LET s == HandleStatus(Cur, links[w].nodeId, ToBoolean(v))
     IN  /\ Fits(s)
         /\ Commit(s)
  /\ Quiet

\* ws.on('message') of addNode with something parseMessage turns into null
Unparsed(w, raw) ==
  /\ Attached(w)
  /\ ~ParseMessage(raw)
  /\ Commit(Cur)
  /\ Quiet

\* ws.on('message') of addNode with a scan_result message
ScanResult(w, devices) ==
  /\ Attached(w)
  /\ Commit(HandleScanResult(Cur, links[w].nodeId, devices))
  /\ Quiet

\* ws.on('message') of addNode with a command_result message
CommandResult(w, id, success) ==
  /\ Attached(w)
  /\ Commit(HandleCommandResult(Cur, links[w].nodeId, id, success))
  /\ Quiet

\* ws.on('message') of addNode with a battery message
Battery(w, level) ==
  /\ Attached(w)
  /\ Commit(HandleBattery(Cur, links[w].nodeId, level))
  /\ Quiet

\* ws.on('message') of addNode with an rssi message
RssiValue(w, value) ==
  /\ Attached(w)
  /\ Commit(HandleRssi(Cur, links[w].nodeId, value))
  /\ Quiet

\* socket.on('getbattery') of server.js falling back to the node pool
RequestBattery ==
  /\ Len(requests) < MaxRequests
  /\ ~txChar
  /\ GetActiveNode(Cur) # None
  /\ Commit(PoolRequestBattery(Cur))
  /\ Quiet

\* socket.on('getrssi') of server.js falling back to the node pool
RequestRssi ==
  /\ Len(requests) < MaxRequests
  /\ ~txChar
  /\ GetActiveNode(Cur) # None
  /\ Commit(PoolRequestRssi(Cur))
  /\ Quiet

\* the 3 s timer of requestBattery or requestRssi; equal delays fire in
\* arming order
RequestTimeout ==
  /\ requests # <<>>
  /\ Commit([Cur EXCEPT !.requests = Tail(@),
                        !.answers = <<[kind |-> Head(requests).kind,
                                       value |-> Head(requests).last]>>])
  /\ Quiet
\* ws.on('pong') of addNode: it writes the entry it was created with
Pong(w) ==
  /\ Attached(w)
  /\ LET n == links[w].nodeId
     IN  Commit(IF Has(Cur, n) /\ nodes[n].ws = w
                THEN [Cur EXCEPT !.nodes[n].pongReceived = TRUE]
                ELSE Cur)
  /\ Quiet

\* the setInterval callback without entry.pongReceived = false
PingTickNoMark(n) ==
  /\ n \in DOMAIN nodes
  /\ LET s == IF ~nodes[n].pongReceived THEN RemoveNode(Cur, n)
              ELSE [Cur EXCEPT !.sent = Append(@, Msg(n, nodes[n].ws, "ping", 0))]
     IN  /\ Fits(s)
         /\ Commit(s)
  /\ Quiet

\* the setInterval callback of addNode: ws.ping() is a frame on the link
PingTick(n) ==
  /\ n \in DOMAIN nodes
  /\ LET s == IF ~nodes[n].pongReceived THEN RemoveNode(Cur, n)
              ELSE [Cur EXCEPT !.nodes[n].pongReceived = FALSE,
                               !.sent = Append(@, Msg(n, nodes[n].ws, "ping", 0))]
     IN  /\ Fits(s)
         /\ Commit(s)
  /\ Quiet

\* ws.on('close') of addNode; the socket is gone afterwards
LinkClose(w) ==
  /\ Attached(w)
  /\ LET s == RemoveNode(Cur, links[w].nodeId)
     IN  /\ Fits(s)
         /\ Commit([s EXCEPT !.links[w] = [state |-> "idle", nodeId |-> None]])
  /\ Silent
  /\ conns' = [conns EXCEPT ![w] = NoConn]
  /\ wire' = [wire EXCEPT ![w] = <<>>]

\* ws.on('error') of addNode; the socket's 'close' event follows
LinkError(w) ==
  /\ Attached(w)
  /\ LET s == RemoveNode(Cur, links[w].nodeId)
     IN  /\ Fits(s)
         /\ Commit([s EXCEPT !.links[w].state = "closing"])
  /\ Quiet

\* a timer may fire when no timer armed before it has the same or a shorter delay
MayFire(i) ==
  /\ i \in 1..Len(timers)
  /\ \A j \in 1..(i - 1) : timers[i].kind = "elect" /\ timers[j].kind = "retry"

Without(ts, i) == SubSeq(ts, 1, i - 1) \o SubSeq(ts, i + 1, Len(ts))

\* setTimeout(() => this._electNode(), scanWaitTime)
ElectTimer(i) ==
  /\ MayFire(i)
  /\ timers[i].kind = "elect"
  /\ Commit(ElectNode([Cur EXCEPT !.timers = Without(@, i)]))
  /\ Quiet

\* the retry callback without the reset of this._handoffInProgress
RetryTimerKeepsFlag(i) ==
  /\ MayFire(i)
  /\ timers[i].kind = "retry"
  /\ LET s0 == [Cur EXCEPT !.timers = Without(@, i)]
         s == IF s0.activeNodeId = None /\ DOMAIN s0.nodes # {}
              THEN TriggerHandoff(s0)
              ELSE s0
     IN  /\ Fits(s)
         /\ Commit(s)
  /\ Quiet

\* the callback of this._handoffTimer
RetryTimer(i) ==
  /\ MayFire(i)
  /\ timers[i].kind = "retry"
  /\ LET s0 == [Cur EXCEPT !.timers = Without(@, i)]
         s == IF s0.activeNodeId = None /\ DOMAIN s0.nodes # {}
              THEN TriggerHandoff([s0 EXCEPT !.handoffInProgress = FALSE])
              ELSE s0
     IN  /\ Fits(s)
         /\ Commit(s)
  /\ Quiet

\* the timer callback without this._pendingCommands.delete(id)
CommandTimeoutKeepsEntry(id) ==
  /\ id \in commandTimers
  /\ \A j \in commandTimers : id <= j
  /\ Commit([Cur EXCEPT !.commandTimers = @ \ {id},
                        !.promises = Resolve(@, id, FALSE)])
  /\ Quiet

\* the 5 s timer of NodePool.sendCommand; equal delays fire in arming order
CommandTimeout(id) ==
  /\ id \in commandTimers
  /\ \A j \in commandTimers : id <= j
  /\ Commit([Cur EXCEPT !.commandTimers = @ \ {id},
                        !.pendingCommands = @ \ {id},
                        !.promises = Resolve(@, id, FALSE)])
  /\ Quiet

\* ws.send of the command messages in q: those on an open socket join the
\* messages on their way to the agent
WireAfter(q) ==
  [w \in Links |->
     LET c == SelectSeq(q, LAMBDA m : m.type = "command" /\ m.ws = w
                                        /\ links[w].state = "open")
     IN  wire[w] \o [i \in 1..Len(c) |-> c[i].id]]

\* bleWriteAsync trying the node pool before the local endpoint
SubmitNodeFirst(data, ok) ==
  /\ GetActiveNode(Cur) = None \/ commandCounter < MaxCommands
  /\ IF GetActiveNode(Cur) # None
     THEN /\ Commit(PoolSendCommand(Cur))
          /\ wrote' = <<>>
          /\ ret' = "pending"
     ELSE IF txChar
     THEN /\ Commit(Cur)
          /\ wrote' = <<data>>
          /\ ret' = IF ok THEN "true" ELSE "false"
     ELSE /\ Commit(Cur)
          /\ wrote' = <<>>
          /\ ret' = "false"
  /\ submitted' = <<data>>
  /\ agentWrote' = <<>>
  /\ agentSent' = <<>>
  /\ UNCHANGED <<txChar, resendTimers, wire, conns, agent, dev, encoded>>

\* bleWriteAsync(data), called by whatever handler
BleWriteAsync(data, ok) ==
  /\ txChar \/ GetActiveNode(Cur) = None \/ commandCounter < MaxCommands
  /\ IF txChar
     THEN /\ Commit(Cur)
          /\ wrote' = <<data>>
          /\ ret' = IF ok THEN "true" ELSE "false"
     ELSE IF GetActiveNode(Cur) # None
     THEN /\ Commit(PoolSendCommand(Cur))
          /\ wrote' = <<>>
          /\ ret' = "pending"
     ELSE /\ Commit(Cur)
          /\ wrote' = <<>>
          /\ ret' = "false"
  /\ submitted' = <<data>>
  /\ agentWrote' = <<>>
  /\ agentSent' = <<>>
  /\ UNCHANGED <<txChar, conns, agent, dev, encoded>>

\* bleWriteAsync(data) on its own; what becomes of the message on the link is
\* not followed
Submit(data, ok) ==
  /\ BleWriteAsync(data, ok)
  /\ UNCHANGED <<resendTimers, wire>>

\* the endpoint bleWriteAsync chooses in the current state
Endpoint == IF txChar THEN "local" ELSE GetActiveNode(Cur)

\* sendCommand of server.js without the second write
SendCommandOnce(find, ok) ==
  /\ BleWriteAsync(IF find THEN FindFrame ELSE CommandFrame, ok)
  /\ wire' = WireAfter(sent')
  /\ UNCHANGED resendTimers

\* sendCommand(commands) of server.js: the frame, the 300 ms timer of a normal
\* command and the first bleWrite.  The timer keeps the frame; the endpoint of
\* the first write is noted next to it, the code keeps no such thing.
SendCommand(find, ok) ==
  LET command == IF find THEN FindFrame ELSE CommandFrame
  IN  /\ find \/ Len(resendTimers) < MaxResend
      /\ BleWriteAsync(command, ok)
      /\ wire' = WireAfter(sent')
      /\ resendTimers' = IF find THEN resendTimers
                         ELSE Append(resendTimers, [data |-> command, first |-> Endpoint])

\* setTimeout(() => bleWrite(command), 300); equal delays fire in arming order
Resend(ok) ==
  /\ resendTimers # <<>>
  /\ BleWriteAsync(Head(resendTimers).data, ok)
  /\ wire' = WireAfter(sent')
  /\ resendTimers' = Tail(resendTimers)

\* BleDevice.requestBattery() on the local endpoint
LocalRequestBattery ==
  /\ txChar
  /\ Commit(Cur)
  /\ wrote' = <<BatteryFrame>>
  /\ ret' = "none"
  /\ submitted' = <<>>
  /\ agentWrote' = <<>>
  /\ agentSent' = <<>>
  /\ UNCHANGED <<txChar, resendTimers, wire, conns, agent, dev, encoded>>

\* an agent that handles the newest command message first
AgentCommandNewestFirst(w, has) ==
  /\ Attached(w)
  /\ wire[w] # <<>>
  /\ Commit(Cur)
  /\ wire' = [wire EXCEPT ![w] = SubSeq(@, 1, Len(@) - 1)]
  /\ agentWrote' = IF has THEN <<[ws |-> w, id |-> wire[w][Len(wire[w])]]>> ELSE <<>>
  /\ agentSent' = <<>>
  /\ wrote' = <<>>
  /\ ret' = "none"
  /\ submitted' = <<>>
  /\ UNCHANGED <<txChar, resendTimers, conns, agent, dev, encoded>>

\* ws.on('message') of the agent with the next command message, handleCommand:
\* bleDevice.write(data) writes when the agent holds the device
AgentCommand(w, has) ==
  /\ Attached(w)
  /\ wire[w] # <<>>
  /\ Commit(Cur)
  /\ wire' = [wire EXCEPT ![w] = Tail(@)]
  /\ agentWrote' = IF has THEN <<[ws |-> w, id |-> Head(wire[w])]>> ELSE <<>>
  /\ agentSent' = <<>>
  /\ wrote' = <<>>
  /\ ret' = "none"
  /\ submitted' = <<>>
  /\ UNCHANGED <<txChar, resendTimers, conns, agent, dev, encoded>>

\* nodePool.destroy(), called by the SIGINT handler of server.js
PoolDestroy(order) ==
  /\ order \in Orders(DOMAIN nodes)
  /\ LET s == Destroy(Cur, order)
     IN  /\ Fits(s)
         /\ Commit(s)
  /\ Quiet
\* the local BleDevice gets its TX characteristic (connect() succeeded)
LocalConnected ==
  /\ ~txChar
  /\ txChar' = TRUE
  /\ Commit(Cur)
  /\ wrote' = <<>>
  /\ ret' = "none"
  /\ submitted' = <<>>
  /\ agentWrote' = <<>>
  /\ agentSent' = <<>>
  /\ UNCHANGED <<resendTimers, wire, conns, agent, dev, encoded>>

\* the peripheral's 'disconnect' event, and bleDevice.on('disconnected') of server.js
LocalDisconnected ==
  /\ txChar
  /\ txChar' = FALSE
  /\ LET s == IF DOMAIN nodes # {} THEN TriggerHandoff(Cur) ELSE Cur
     IN  /\ Fits(s)
         /\ Commit(s)
  /\ wrote' = <<>>
  /\ ret' = "none"
  /\ submitted' = <<>>
  /\ agentWrote' = <<>>
  /\ agentSent' = <<>>
  /\ UNCHANGED <<resendTimers, wire, conns, agent, dev, encoded>>

\* the handler is one of the forwarder or of its BleDevice: the coordinator's
\* state is not touched
PoolUntouched ==
  /\ Commit(Cur)
  /\ wrote' = <<>>
  /\ ret' = "none"
  /\ submitted' = <<>>
  /\ agentWrote' = <<>>
  /\ agentSent' = <<>>
  /\ UNCHANGED <<txChar, resendTimers, wire, conns>>

\* ----------------------------------------------------- the command encoding
\* JavaScript values as they reach sendCommand in a commands object: a key
\* that is missing, null, a boolean, a number (NaN among them), a string
Missing == [type |-> "undefined", val |-> 0, nan |-> FALSE, text |-> ""]
Null == [type |-> "null", val |-> 0, nan |-> FALSE, text |-> ""]
Bool(b) == [type |-> "boolean", val |-> IF b THEN 1 ELSE 0, nan |-> FALSE, text |-> ""]
Num(n) == [type |-> "number", val |-> n, nan |-> FALSE, text |-> ""]
NaN == [type |-> "number", val |-> 0, nan |-> TRUE, text |-> ""]
Str(t) == [type |-> "string", val |-> 0, nan |-> FALSE, text |-> t]

\* the levels a caller can pass
Levels == {Num(n) : n \in {-1, 50, 100, 200}}
            \cup {Str("50"), Str("abc"), Bool(TRUE), Null, Missing}

\* Number(text) for the strings of Levels
ParseNumber(t) ==
  IF t = "" THEN Num(0)
  ELSE IF t = "50" THEN Num(50)
  ELSE NaN

\* ToNumber, as Math.round applies it to its argument
ToNumber(v) ==
  IF v.type = "undefined" THEN NaN
  ELSE IF v.type = "string" THEN ParseNumber(v.text)
  ELSE IF v.type = "number" THEN v
  ELSE Num(v.val)

\* Math.round of an integer or NaN
MathRound(x) == x
\* Math.min(a, x) and Math.max(a, x) for an integer a
MathMin(a, x) == IF x.nan THEN NaN ELSE Num(IF x.val < a THEN x.val ELSE a)
MathMax(a, x) == IF x.nan THEN NaN ELSE Num(IF x.val > a THEN x.val ELSE a)

\* the body of the clamp loop without Math.max and Math.min
ClampKeyUnbounded(v) ==
  IF v.type \in {"undefined", "boolean"} THEN v
  ELSE MathRound(ToNumber(v))

\* the body of the clamp loop of sendCommand for one key: a missing key is
\* not visited, a boolean is left as it is
ClampKey(v) ==
  IF v.type \in {"undefined", "boolean"} THEN v
  ELSE MathMax(MIN_VALUE, MathMin(MAX_VALUE, MathRound(ToNumber(v))))

\* !!v
Truthy(v) ==
  IF v.type \in {"undefined", "null"} THEN FALSE
  ELSE IF v.type = "string" THEN v.text # ""
  ELSE ~v.nan /\ v.val # 0

\* v || 0
OrZero(v) == IF Truthy(v) THEN v ELSE Num(0)

\* an element of the array given to Buffer.from: its number modulo 256
ToByte(v) == IF ToNumber(v).nan THEN 0 ELSE ToNumber(v).val % 256

\* the keys of a commands object, as places of a tuple
Shock == 1
Vibro == 2
Sound == 3
Find == 4

\* sendCommand(commands) up to the frame it builds
EncodeCommand(c) ==
  LET shock == OrZero(ClampKey(c[Shock]))
      vibro == OrZero(ClampKey(c[Vibro]))
      sound == OrZero(ClampKey(c[Sound]))
  IN  IF Truthy(ClampKey(c[Find])) THEN <<FIND_START, FIND_TYPE, CMD_END>>
      ELSE <<CMD_START, CMD_TYPE, ToByte(shock), ToByte(vibro), ToByte(sound), CMD_END>>

\* no command has been encoded yet
NoFrame == [commands |-> <<Missing, Missing, Missing, Missing>>, frame |-> <<>>]

\* sendCommand(commands) of server.js: the clamping and the frame
Encode(c) ==
  /\ encoded' = [commands |-> c, frame |-> EncodeCommand(c)]
  /\ PoolUntouched
  /\ UNCHANGED <<agent, dev>>

PoolIdle ==
  /\ PoolUntouched
  /\ UNCHANGED encoded

\* ------------------------------------------------- the forwarder's server link
\* forwarder.js at start: connectToServer() has created the first WebSocket.
\* timer is the delay of the pending reconnect timer (0: none); attempt counts
\* the reconnect timers armed since the link last opened, the code keeps no
\* such count.  writes are the bleDevice.write calls of handleCommand waiting
\* in their await; each notes whether the link its command came on is still
\* the forwarder's link, the code keeps no such note.
AgentInit == [link |-> "connecting", reconnectDelay |-> INITIAL_RECONNECT_DELAY,
              timer |-> 0, attempt |-> 0, writes |-> <<>>]

Min(a, b) == IF a < b THEN a ELSE b

\* ws.on('open') of connectToServer: the backoff is reset, auth is sent
AgentOpen ==
  /\ agent.link = "connecting"
  /\ agent' = [agent EXCEPT !.link = "open",
                            !.reconnectDelay = INITIAL_RECONNECT_DELAY,
                            !.attempt = 0]
  /\ PoolIdle
  /\ UNCHANGED dev

\* ws.on('message') of connectToServer, case MSG_AUTH_RESULT
AgentAuthResult(success) ==
  /\ agent.link = "open"
  /\ agent' = [agent EXCEPT !.link = IF success THEN "authed" ELSE "closing"]
  /\ PoolIdle
  /\ UNCHANGED dev

\* scheduleReconnect without the doubling
ScheduleReconnectConstant(a) ==
  [a EXCEPT !.timer = a.reconnectDelay,
            !.attempt = @ + 1]

\* scheduleReconnect()
ScheduleReconnect(a) ==
  [a EXCEPT !.timer = a.reconnectDelay,
            !.reconnectDelay = Min(a.reconnectDelay * 2, MAX_RECONNECT_DELAY),
            !.attempt = @ + 1]

\* ws.on('close') of connectToServer: the link failed to open, was closed by
\* the coordinator or by the forwarder after auth_result false, or was lost
AgentClose ==
  /\ agent.link \in {"connecting", "open", "authed", "closing"}
  /\ agent.attempt < MaxAttempts
  /\ agent' = [ScheduleReconnect(agent) EXCEPT
                 !.link = "waiting",
                 !.writes = [i \in 1..Len(@) |-> [@[i] EXCEPT !.stayed = FALSE]]]
  /\ PoolIdle
  /\ UNCHANGED dev

\* setTimeout(connectToServer, reconnectDelay)
AgentReconnect ==
  /\ agent.link = "waiting"
  /\ agent' = [agent EXCEPT !.link = "connecting", !.timer = 0]
  /\ PoolIdle
  /\ UNCHANGED dev

\* the coordinator's state is not touched and the local endpoint is not used
CoordinatorIdle ==
  /\ Commit(Cur)
  /\ wrote' = <<>>
  /\ ret' = "none"
  /\ submitted' = <<>>
  /\ UNCHANGED <<txChar, resendTimers, wire, conns, encoded>>

\* msg.data of a command message, a string, as the values of its characters
\* read as hex digits, 16 for a character that is none: "aa07", "aa0", "az07"
\* and ""
HexStrings == {<<10, 10, 0, 7>>, <<10, 10, 0>>, <<10, 16, 0, 7>>, <<>>}

\* Buffer.from(msg.data, 'hex'): one byte per pair of hex digits, up to the
\* first pair that is not one; a last single character is dropped
RECURSIVE HexDecode(_)
HexDecode(t) ==
  IF Len(t) < 2 THEN <<>>
  ELSE IF t[1] > 15 \/ t[2] > 15 THEN <<>>
  ELSE <<16 * t[1] + t[2]>> \o HexDecode(Tail(Tail(t)))

\* send(type, payload) of forwarder.js: only on an open socket
AgentSend(a, msg) ==
  IF a.link \in {"open", "authed"} THEN <<msg>> ELSE <<>>

CommandResultMsg(id, success) ==
  [type |-> "command_result", id |-> id, success |-> success]

\* ws.on('message') of connectToServer, case MSG_COMMAND: handleCommand up to
\* its await, and beyond it when write() returns false without writing
AgentHandleCommand(id, data) ==
  /\ agent.link = "authed"
  /\ Len(agent.writes) < MaxWrites
  /\ \A i \in 1..Len(agent.writes) : agent.writes[i].id # id
  /\ agentWrote' = <<[id |-> id, bytes |-> HexDecode(data)]>>
  /\ IF dev.txChar
     THEN /\ agent' = [agent EXCEPT !.writes = Append(@, [id |-> id, stayed |-> TRUE])]
          /\ agentSent' = <<>>
     ELSE /\ agent' = agent
          /\ agentSent' = AgentSend(agent, CommandResultMsg(id, FALSE))
  /\ CoordinatorIdle
  /\ UNCHANGED dev

\* handleCommand that reports success whatever write() returned
AgentWriteDoneSaysTrue(i, ok) ==
  /\ i \in 1..Len(agent.writes)
  /\ agent' = [agent EXCEPT !.writes = SubSeq(@, 1, i - 1) \o SubSeq(@, i + 1, Len(@))]
  /\ agentSent' = AgentSend(agent, CommandResultMsg(agent.writes[i].id, TRUE))
  /\ agentWrote' = <<>>
  /\ CoordinatorIdle
  /\ UNCHANGED dev

\* this._txChar.writeAsync of write() settles, resolved (ok) or rejected, and
\* handleCommand runs on to its end
AgentWriteDone(i, ok) ==
  /\ i \in 1..Len(agent.writes)
  /\ agent' = [agent EXCEPT !.writes = SubSeq(@, 1, i - 1) \o SubSeq(@, i + 1, Len(@))]
  /\ agentSent' = AgentSend(agent, CommandResultMsg(agent.writes[i].id, ok))
  /\ agentWrote' = <<>>
  /\ CoordinatorIdle
  /\ UNCHANGED dev

\* ---------------------------------------------------- the forwarder's BleDevice
\* the BleDevice after its constructor.  attempts are the connect() calls
\* waiting in an await; rx tells whether RX notifications are subscribed on the
\* connection held (kept by the peripheral, not by BleDevice); handler tells
\* whether the 'disconnect' handler of connect() is attached.
DevInit == [txChar |-> FALSE, peripheral |-> FALSE, isConnecting |-> FALSE,
            autoReconnect |-> TRUE, rx |-> FALSE, handler |-> FALSE,
            attempts |-> <<>>, retryTimers |-> 0, disconnecting |-> FALSE,
            emitted |-> <<>>]

\* what discoverSomeServicesAndCharacteristicsAsync can return, in its order
CharLists == {<<"rx", "tx">>, <<"tx", "rx">>, <<"rx">>}

\* the device record at the start of a handler: the events of the last step
\* are gone
Dev == [dev EXCEPT !.emitted = <<>>]

\* connect() up to its first await
ConnectCall(d) ==
  IF d.isConnecting THEN d
  ELSE [d EXCEPT !.isConnecting = TRUE,
                 !.autoReconnect = TRUE,
                 !.attempts = Append(@, [stage |-> "power", rest |-> <<>>])]

\* setTimeout(() => this.connect(), delay) of connect()
ArmRetry(d) ==
  IF d.autoReconnect THEN [d EXCEPT !.retryTimers = @ + 1] ELSE d

\* the loop of connect() over the characteristics from chars on, up to the
\* next await or to the end of the try block
RECURSIVE CharLoop(_, _, _)
CharLoop(d, i, chars) ==
  IF chars = <<>>
  THEN [d EXCEPT !.attempts = SubSeq(@, 1, i - 1) \o SubSeq(@, i + 1, Len(@)),
                 !.isConnecting = FALSE,
                 !.emitted = Append(@, "connected"),
                 !.handler = TRUE]
  ELSE IF Head(chars) = "rx"
  THEN [d EXCEPT !.attempts[i] = [stage |-> "subscribe", rest |-> Tail(chars)]]
  ELSE CharLoop([d EXCEPT !.txChar = TRUE], i, Tail(chars))

\* BleDevice.connect() called by its owner (handleConnect of the forwarder)
DevConnect ==
  /\ Len(dev.attempts) < MaxConnects
  /\ dev' = ConnectCall(Dev)
  /\ PoolIdle
  /\ UNCHANGED agent

\* the retry timer of connect(): it calls connect()
DevRetryTimer ==
  /\ dev.retryTimers > 0
  /\ Len(dev.attempts) < MaxConnects
  /\ dev' = ConnectCall([Dev EXCEPT !.retryTimers = @ - 1])
  /\ PoolIdle
  /\ UNCHANGED agent

\* the await of attempt i resolves and connect() runs on to its next await or
\* to its end; discovery and subscription need the connection
DevAdvance(i, chars) ==
  /\ i \in 1..Len(dev.attempts)
  /\ LET a == dev.attempts[i]
     IN  /\ a.stage \in {"discover", "subscribe"} => dev.peripheral
         /\ dev' = IF a.stage = "power"
                   THEN [Dev EXCEPT !.attempts[i].stage = "connect"]
                   ELSE IF a.stage = "connect"
                   THEN [Dev EXCEPT !.attempts[i].stage = "discover",
                                    !.peripheral = TRUE,
                                    !.rx = FALSE]
                   ELSE IF a.stage = "discover"
                   THEN CharLoop(Dev, i, chars)
                   ELSE CharLoop([Dev EXCEPT !.rx = TRUE], i, a.rest)
  /\ PoolIdle
  /\ UNCHANGED agent

\* the await of attempt i rejects: the catch block of connect()
DevFail(i) ==
  /\ i \in 1..Len(dev.attempts)
  /\ dev.retryTimers < MaxRetryTimers \/ ~dev.autoReconnect
  /\ dev' = ArmRetry([Dev EXCEPT !.attempts = SubSeq(@, 1, i - 1) \o SubSeq(@, i + 1, Len(@)),
                                  !.isConnecting = FALSE])
  /\ PoolIdle
  /\ UNCHANGED agent

\* the 'disconnect' handler that connect() attached to the peripheral
DevDisconnectEvent ==
  /\ dev.handler
  /\ dev.retryTimers < MaxRetryTimers \/ ~dev.autoReconnect
  /\ dev' = ArmRetry([Dev EXCEPT !.txChar = FALSE,
                                  !.peripheral = FALSE,
                                  !.rx = FALSE,
                                  !.handler = FALSE,
                                  !.emitted = Append(@, "disconnected")])
  /\ PoolIdle
  /\ UNCHANGED agent

\* the end of disconnect(), after the await if there was one
FinishDisconnect(d) ==
  [d EXCEPT !.txChar = FALSE,
            !.peripheral = FALSE,
            !.rx = FALSE,
            !.isConnecting = FALSE,
            !.disconnecting = FALSE]

\* BleDevice.disconnect() called by its owner (handleDisconnect of the
\* forwarder), up to await this._peripheral.disconnectAsync() if there is a
\* peripheral, to its end if not
DevDisconnect ==
  /\ ~dev.disconnecting
  /\ dev' = LET d == [Dev EXCEPT !.autoReconnect = FALSE]
            IN  IF d.peripheral THEN [d EXCEPT !.disconnecting = TRUE]
                ELSE FinishDisconnect(d)
  /\ PoolIdle
  /\ UNCHANGED agent

\* disconnectAsync() is over, resolved or not: the rest of disconnect()
DevDisconnectDone ==
  /\ dev.disconnecting
  /\ dev' = FinishDisconnect(Dev)
  /\ PoolIdle
  /\ UNCHANGED agent

\* isConnected()
IsConnected(d) == d.txChar

Init ==
  /\ nodes = EmptyNodes
  /\ links = [w \in Links |-> [state |-> "idle", nodeId |-> None]]
  /\ activeNodeId = None
  /\ handoffInProgress = FALSE
  /\ handoffTimer = FALSE
  /\ timers = <<>>
  /\ pendingScanResults = NullMap
  /\ commandCounter = 0
  /\ pendingCommands = {}
  /\ commandTimers = {}
  /\ promises = <<>>
  /\ txChar = FALSE
  /\ resendTimers = <<>>
  /\ wire = [w \in Links |-> <<>>]
  /\ conns = [w \in Links |-> NoConn]
  /\ submitted = <<>>
  /\ agentWrote = <<>>
  /\ sent = <<>>
  /\ emitted = <<>>
  /\ hcall = <<>>
  /\ wrote = <<>>
  /\ ret = "none"
  /\ crashed = FALSE
  /\ agent = AgentInit
  /\ dev = DevInit
  /\ encoded = NoFrame
  /\ requests = <<>>
  /\ answers = <<>>
  /\ agentSent = <<>>

\* The arbitration of the pool: every agent link event and message, the ping
\* ticks, the handoff timers and the local endpoint's events.
Next ==
  \/ \E w \in Links, n \in NodeIds : Register(w, n)
  \/ \E w \in Links, b \in BOOLEAN : Status(w, b)
  \/ \E w \in Links, d \in DeviceLists : ScanResult(w, d)
  \/ \E w \in Links : Pong(w)
  \/ \E n \in NodeIds : PingTick(n)
  \/ \E w \in Links : LinkClose(w)
  \/ \E w \in Links : LinkError(w)
  \/ \E i \in 1..MaxTimers : ElectTimer(i)
  \/ \E i \in 1..MaxTimers : RetryTimer(i)
  \/ LocalConnected
  \/ LocalDisconnected

Spec == Init /\ [][Next]_vars

\* The routing of writes: frames submitted while agents register, report
\* their status and leave, and while the local endpoint comes and goes.
NextRoute ==
  \/ \E w \in Links, n \in NodeIds : Register(w, n)
  \/ \E w \in Links, b \in BOOLEAN : Status(w, b)
  \/ \E w \in Links, id \in 1..MaxCommands, ok \in BOOLEAN : CommandResult(w, id, ok)
  \/ \E w \in Links : LinkClose(w)
  \/ \E w \in Links : LinkError(w)
  \/ \E i \in 1..MaxTimers : ElectTimer(i)
  \/ \E i \in 1..MaxTimers : RetryTimer(i)
  \/ \E id \in 1..MaxCommands : CommandTimeout(id)
  \/ \E f \in Frames, ok \in BOOLEAN : Submit(f, ok)
  \/ LocalConnected
  \/ LocalDisconnected

SpecRoute == Init /\ [][NextRoute]_vars

\* The server's sendCommand: frames sent once or twice while the routing
\* changes under them, and the agents handling the commands that reach them.
NextSend ==
  \/ \E w \in Links, n \in NodeIds : Register(w, n)
  \/ \E w \in Links, b \in BOOLEAN : Status(w, b)
  \/ \E w \in Links : LinkClose(w)
  \/ \E i \in 1..MaxTimers : ElectTimer(i)
  \/ \E i \in 1..MaxTimers : RetryTimer(i)
  \/ \E find \in BOOLEAN, ok \in BOOLEAN : SendCommand(find, ok)
  \/ \E ok \in BOOLEAN : Resend(ok)
  \/ \E w \in Links, has \in BOOLEAN : AgentCommand(w, has)
  \/ LocalRequestBattery
  \/ LocalConnected
  \/ LocalDisconnected

SpecSend == Init /\ [][NextSend]_vars

\* The authentication of agent links in front of the pool.
NextAuth ==
  \/ \E w \in Links : LinkOpen(w)
  \/ \E w \in Links, kind \in AuthKinds, n \in NodeIds : ServerMessage(w, kind, n)
  \/ \E w \in Links : AuthTimeout(w)
  \/ \E w \in Links : UnauthClose(w)
  \/ \E w \in Links, b \in BOOLEAN : Status(w, b)
  \/ \E w \in Links : LinkClose(w)
  \/ \E i \in 1..MaxTimers : ElectTimer(i)
  \/ \E i \in 1..MaxTimers : RetryTimer(i)

SpecAuth == Init /\ [][NextAuth]_vars

\* The routing of writes with time passing: the 5 s timer of every pending
\* command fires unless it is cancelled.
SpecRouteLive ==
  /\ Init
  /\ [][NextRoute]_vars
  /\ \A id \in 1..MaxCommands : WF_vars(CommandTimeout(id))

\* The pool without a local radio, with time passing: agents register, report
\* and leave when they like, and every armed handoff timer fires in the end.
NextLive ==
  \/ \E w \in Links, n \in NodeIds : Register(w, n)
  \/ \E w \in Links, b \in BOOLEAN : Status(w, b)
  \/ \E w \in Links, d \in DeviceLists : ScanResult(w, d)
  \/ \E w \in Links : LinkClose(w)
  \/ \E i \in 1..MaxTimers : ElectTimer(i)
  \/ \E i \in 1..MaxTimers : RetryTimer(i)

SpecLive ==
  /\ Init
  /\ [][NextLive]_vars
  /\ WF_vars(\E i \in 1..MaxTimers : ElectTimer(i))
  /\ WF_vars(\E i \in 1..MaxTimers : RetryTimer(i))

\* The encoding of commands: whatever a caller passes as shock, vibro, sound
\* and find.
NextEncode ==
  \E s \in Levels, v \in Levels, o \in Levels, f \in {Missing, Bool(TRUE)} :
    Encode(<<s, v, o, f>>)

SpecEncode == Init /\ [][NextEncode]_vars

\* A forwarder on its own: its link to the coordinator comes and goes, and its
\* BleDevice is told to connect and to disconnect while the device answers or
\* fails.
NextAgent ==
  \/ AgentOpen
  \/ \E success \in BOOLEAN : AgentAuthResult(success)
  \/ AgentClose
  \/ AgentReconnect
  \/ DevConnect
  \/ DevRetryTimer
  \/ \E i \in 1..MaxConnects, chars \in CharLists : DevAdvance(i, chars)
  \/ \E i \in 1..MaxConnects : DevFail(i)
  \/ DevDisconnectEvent
  \/ DevDisconnect
  \/ DevDisconnectDone

SpecAgent == Init /\ [][NextAgent]_vars

\* Agents that register and then stay silent, no message and no pong, while
\* the ping ticks are held back and time passes: every armed handoff timer
\* fires in the end.
NextSilent ==
  \/ \E w \in Links, n \in NodeIds : Register(w, n)
  \/ \E w \in Links : LinkClose(w)
  \/ \E i \in 1..MaxTimers : ElectTimer(i)
  \/ \E i \in 1..MaxTimers : RetryTimer(i)
  \/ LocalConnected
  \/ LocalDisconnected

SpecSilent ==
  /\ Init
  /\ [][NextSilent]_vars
  /\ WF_vars(\E i \in 1..MaxTimers : ElectTimer(i))
  /\ WF_vars(\E i \in 1..MaxTimers : RetryTimer(i))

\* Agents that send what they should not: text that is no message, fields of
\* the wrong type, device lists with null entries.
NextFault ==
  \/ \E w \in Links : LinkOpen(w)
  \/ \E w \in Links, kind \in AuthKinds, n \in NodeIds : ServerMessage(w, kind, n)
  \/ \E w \in Links : UnauthClose(w)
  \/ \E w \in Links, v \in WrongTypedFlags : StatusWrongType(w, v)
  \/ \E w \in Links, raw \in RawMessages : Unparsed(w, raw)
  \/ \E w \in Links, d \in RawDeviceLists : ScanResult(w, d)
  \/ \E w \in Links : LinkClose(w)
  \/ \E i \in 1..MaxTimers : ElectTimer(i)
  \/ \E i \in 1..MaxTimers : RetryTimer(i)

SpecFault == Init /\ [][NextFault]_vars

\* Commands on their way to the agents and the command_result messages that
\* come back, from whichever node.
NextReply ==
  \/ \E w \in Links, n \in NodeIds : Register(w, n)
  \/ \E w \in Links, b \in BOOLEAN : Status(w, b)
  \/ \E w \in Links : LinkClose(w)
  \/ \E find \in BOOLEAN, ok \in BOOLEAN : SendCommand(find, ok)
  \/ \E ok \in BOOLEAN : Resend(ok)
  \/ \E w \in Links, has \in BOOLEAN : AgentCommand(w, has)
  \/ \E w \in Links, id \in 1..MaxCommands, success \in BOOLEAN : CommandResult(w, id, success)
  \/ \E id \in 1..MaxCommands : CommandTimeout(id)

SpecReply == Init /\ [][NextReply]_vars
\* The pool with commands pending and handoffs under way when destroy() is
\* called.
NextDestroy ==
  \/ \E w \in Links, n \in NodeIds : Register(w, n)
  \/ \E w \in Links, b \in BOOLEAN : Status(w, b)
  \/ \E w \in Links : LinkClose(w)
  \/ \E i \in 1..MaxTimers : ElectTimer(i)
  \/ \E i \in 1..MaxTimers : RetryTimer(i)
  \/ \E data \in Frames, ok \in BOOLEAN : Submit(data, ok)
  \/ \E id \in 1..MaxCommands : CommandTimeout(id)
  \/ \E order \in SeqsUpTo(NodeIds, Cardinality(NodeIds)) : PoolDestroy(order)

SpecDestroy == Init /\ [][NextDestroy]_vars
\* The battery and rssi reports of the nodes and the requests waiting for
\* them.
NextReport ==
  \/ \E w \in Links, n \in NodeIds : Register(w, n)
  \/ \E w \in Links, b \in BOOLEAN : Status(w, b)
  \/ \E w \in Links : LinkClose(w)
  \/ \E w \in Links, level \in BatteryLevels : Battery(w, level)
  \/ \E w \in Links, value \in Rssi : RssiValue(w, value)
  \/ RequestBattery
  \/ RequestRssi
  \/ RequestTimeout

SpecReport == Init /\ [][NextReport]_vars
\* The forwarder handling the coordinator's commands while its link and its
\* device come and go.
NextHandle ==
  \/ AgentOpen
  \/ \E success \in BOOLEAN : AgentAuthResult(success)
  \/ AgentClose
  \/ AgentReconnect
  \/ \E id \in 1..MaxCommands, data \in HexStrings : AgentHandleCommand(id, data)
  \/ \E i \in 1..MaxWrites, ok \in BOOLEAN : AgentWriteDone(i, ok)
  \/ DevConnect
  \/ \E i \in 1..MaxConnects, chars \in CharLists : DevAdvance(i, chars)
  \/ DevDisconnectEvent

SpecHandle == Init /\ [][NextHandle]_vars

\* the write that has waited longest settles in the end
SpecHandleLive ==
  SpecHandle /\ WF_vars(\E ok \in BOOLEAN : AgentWriteDone(1, ok))

\* ------------------------------------------------------------------- claims
Range(q) == {q[i] : i \in 1..Len(q)}
ActiveSet == {n \in DOMAIN nodes : nodes[n].isActive}
ElectPending(ts) == Len(SelectSeq(ts, LAMBDA t : t.kind = "elect"))
RetryPending(ts) == Len(SelectSeq(ts, LAMBDA t : t.kind = "retry"))
SentOfType(q, t) == SelectSeq(q, LAMBDA m : m.type = t)

\* C1: at most one entry has isActive = true, activeNodeId = n iff entry n is
\* in the pool with isActive = true, and activeNodeId = none iff no entry is
\* active.
C1_SingleActive ==
  /\ Cardinality(ActiveSet) <= 1
  /\ \A n \in NodeIds : (activeNodeId = n) <=> (n \in ActiveSet)
  /\ (activeNodeId = None) <=> (ActiveSet = {})

\* a second node holds the device while another one is the active node
C1_Witness ==
  \E n \in NodeIds, m \in DOMAIN nodes :
    /\ activeNodeId = n
    /\ m # n
    /\ nodes[m].bleConnected

\* C2: if activeNodeId is not none, its entry is in the pool and has
\* bleConnected = true; every entry with isActive has bleConnected.
C2_ActiveImpliesConnected ==
  /\ activeNodeId # None =>
       activeNodeId \in DOMAIN nodes /\ nodes[activeNodeId].bleConnected
  /\ \A n \in DOMAIN nodes : nodes[n].isActive => nodes[n].bleConnected

\* the active node reported bleConnected false and was demoted: a handoff started
C2_Witness ==
  /\ activeNodeId = None
  /\ hcall = <<FALSE>>
  /\ \E n \in DOMAIN nodes : ~nodes[n].bleConnected /\ SentOfType(sent, "scan") # <<>>
  /\ emitted = <<>>

\* C3: a submitted frame is written to the local endpoint whenever it is
\* connected, even with an active node; a command goes to the active node only
\* when the local endpoint is not connected; with neither, the call returns
\* false and nothing is written or sent.
C3_RoutingPreference ==
  [][/\ ret' # "none" =>
          /\ txChar =>
               /\ Len(wrote') = 1
               /\ sent' = <<>>
               /\ ret' \in {"true", "false"}
          /\ (~txChar /\ activeNodeId # None) =>
               /\ wrote' = <<>>
               /\ ret' = "pending"
               /\ Len(sent') = 1
               /\ sent'[1].type = "command"
               /\ sent'[1].to = activeNodeId
               /\ sent'[1].ws = nodes[activeNodeId].ws
          /\ (~txChar /\ activeNodeId = None) =>
               /\ wrote' = <<>>
               /\ sent' = <<>>
               /\ ret' = "false"
     /\ SentOfType(sent', "command") # <<>> => ~txChar /\ ret' = "pending"
     /\ wrote' # <<>> => txChar
    ]_vars

\* a frame was written locally although a node is active
C3_Witness ==
  /\ txChar
  /\ activeNodeId # None
  /\ wrote # <<>>

\* C4: after addNode(newLink, id) the pool holds one entry for id, bound to
\* newLink with bleConnected = false and isActive = false; the close event,
\* the error event and the late messages of the link that addNode evicted
\* neither remove nor modify that entry.
C4_EvictedLinkHarmless ==
  [][/\ \A w \in Links, n \in NodeIds :
          Register(w, n) =>
            /\ n \in DOMAIN nodes'
            /\ nodes'[n].ws = w
            /\ ~nodes'[n].bleConnected
            /\ ~nodes'[n].isActive
     /\ \A w \in Links :
          LET n == links[w].nodeId
          IN  (/\ n \in DOMAIN nodes
               /\ nodes[n].ws # w
               /\ \/ LinkClose(w)
                  \/ LinkError(w)
                  \/ \E b \in BOOLEAN : Status(w, b)
                  \/ \E d \in DeviceLists : ScanResult(w, d)
                  \/ Pong(w))
              => (n \in DOMAIN nodes' /\ nodes'[n] = nodes[n])
    ]_vars

\* C5: triggerHandoff called while a handoff is in progress sends no scan,
\* leaves pendingScanResults alone and arms or replaces no timer; at most one
\* retry timer is ever pending.
C5_HandoffCoalescing ==
  [][/\ TRUE \in Range(hcall') =>
          /\ SentOfType(sent', "scan") = <<>>
          /\ pendingScanResults' = pendingScanResults
          /\ timers' = timers
          /\ handoffTimer' = handoffTimer
          /\ handoffInProgress
          /\ handoffInProgress'
     /\ RetryPending(timers') <= 1
    ]_vars

\* the active node went while a handoff was in progress: the call was coalesced
C5_Witness ==
  /\ hcall = <<TRUE>>
  /\ handoffInProgress
  /\ activeNodeId = None
  /\ DOMAIN nodes # {}

\* C6: no scan is broadcast while the scan window of an earlier broadcast is
\* still open, that is while its election timer is pending.
C6_OneScanOutstanding ==
  [][SentOfType(sent', "scan") # <<>> => ElectPending(timers) = 0]_vars

\* C7: the election sends connect to the node in the pool whose recorded
\* results hold the largest numeric rssi, the first recorded one on a tie;
\* nodes no longer in the pool and non-numeric rssi are ignored, and without
\* a candidate nothing is sent.
Candidates ==
  LET e == pendingScanResults.entries
  IN  {c \in (1..Len(e)) \X (1..MaxDevices) :
         /\ c[2] <= Len(e[c[1]].devices)
         /\ e[c[1]].nodeId \in DOMAIN nodes
         /\ e[c[1]].devices[c[2]].num}
CandRssi(c) == pendingScanResults.entries[c[1]].devices[c[2]].rssi
Strongest == {c \in Candidates : \A d \in Candidates : CandRssi(d) <= CandRssi(c)}
Winner ==
  LET k == CHOOSE k \in {c[1] : c \in Strongest} :
             \A c \in Strongest : k <= c[1]
  IN  pendingScanResults.entries[k].nodeId
C7_ElectStrongest ==
  [][(~pendingScanResults.isNull /\ pendingScanResults'.isNull) =>
       IF Candidates = {} THEN sent' = <<>>
       ELSE sent' = <<Msg(Winner, nodes[Winner].ws, "connect", 0)>>
    ]_vars

\* an election between two pool members sent connect
C7_Witness ==
  /\ SentOfType(sent, "connect") # <<>>
  /\ Cardinality(DOMAIN nodes) = 2
  /\ pendingScanResults.isNull

\* C8: when an entry's bleConnected goes from false to true while no node is
\* active, the node becomes active, the handoff flag is cleared, the retry
\* timer is cancelled and active:changed is emitted once for it.
C8_PromoteOnConnect ==
  [][\A n \in NodeIds :
       (/\ activeNodeId = None
        /\ n \in DOMAIN nodes
        /\ n \in DOMAIN nodes'
        /\ nodes'[n].ws = nodes[n].ws
        /\ ~nodes[n].bleConnected
        /\ nodes'[n].bleConnected)
       => /\ activeNodeId' = n
          /\ nodes'[n].isActive
          /\ ~handoffInProgress'
          /\ ~handoffTimer'
          /\ RetryPending(timers') = 0
          /\ emitted' = <<Ev("active:changed", n)>>
    ]_vars

\* a node was promoted in the middle of a handoff's scan window
C8_Witness ==
  /\ activeNodeId # None
  /\ emitted = <<Ev("active:changed", activeNodeId)>>
  /\ ElectPending(timers) = 1
  /\ ~pendingScanResults.isNull

\* C9 as stated: every status{bleConnected: true} of a node other than the
\* active one gets disconnect_ble and changes neither activeNodeId nor any
\* isActive flag.
C9_EveryReportYields ==
  [][\A w \in Links :
       LET n == links[w].nodeId
       IN  (/\ Status(w, TRUE)
            /\ n \in DOMAIN nodes
            /\ activeNodeId \notin {None, n})
           => /\ \E i \in 1..Len(sent') :
                   sent'[i].type = "disconnect_ble" /\ sent'[i].to = n
              /\ activeNodeId' = activeNodeId
              /\ ActiveSet' = ActiveSet
    ]_vars

\* C9 amended: a status that turns an entry's bleConnected from false to true
\* while another node is active gets disconnect_ble and changes neither
\* activeNodeId nor any isActive flag; with no node active the reporting node
\* becomes the active one.
C9_DuplicateYields ==
  [][\A n \in NodeIds :
       (/\ n \in DOMAIN nodes
        /\ n \in DOMAIN nodes'
        /\ nodes'[n].ws = nodes[n].ws
        /\ ~nodes[n].bleConnected
        /\ nodes'[n].bleConnected)
       => IF activeNodeId = None
          THEN activeNodeId' = n /\ ActiveSet' = {n}
          ELSE /\ activeNodeId # n
               /\ sent' = <<Msg(n, nodes[n].ws, "disconnect_ble", 0)>>
               /\ activeNodeId' = activeNodeId
               /\ ActiveSet' = ActiveSet
    ]_vars

\* the second node to connect was told to disconnect, the first stays active
C9_Witness ==
  \E n \in DOMAIN nodes :
    /\ activeNodeId \notin {None, n}
    /\ nodes[n].bleConnected
    /\ sent = <<Msg(n, nodes[n].ws, "disconnect_ble", 0)>>

\* C10: when the active node reports bleConnected false or leaves the pool,
\* the same step sets activeNodeId to none, leaves no entry active and calls
\* triggerHandoff; a status bleConnected false of a node that is not active
\* changes neither activeNodeId nor the handoff state.
C10_LossDemotes ==
  [][/\ \A a \in NodeIds :
          (/\ activeNodeId = a
           /\ \/ a \notin DOMAIN nodes'
              \/ nodes'[a].ws # nodes[a].ws
              \/ ~nodes'[a].bleConnected)
          => /\ activeNodeId' = None
             /\ ActiveSet' = {}
             /\ Len(hcall') = 1
     /\ \A w \in Links :
          (Status(w, FALSE) /\ links[w].nodeId # activeNodeId)
          => /\ activeNodeId' = activeNodeId
             /\ handoffInProgress' = handoffInProgress
             /\ timers' = timers
             /\ pendingScanResults' = pendingScanResults
             /\ hcall' = <<>>
             /\ sent' = <<>>
    ]_vars

\* the active node left the pool and the scan went to the node that remains
C10_Witness ==
  /\ activeNodeId = None
  /\ hcall = <<FALSE>>
  /\ Cardinality(DOMAIN nodes) = 1
  /\ Len(SentOfType(sent, "scan")) = 1
  /\ \E w \in Links : links[w].state = "closing"

\* C11: with the local endpoint never connected and no node active, a node
\* that registered and reported bleConnected false is eventually sent a scan
\* by a handoff, without any further event from outside.
C11_ColdStartHandoff ==
  \A n \in NodeIds :
    (/\ ~txChar
     /\ activeNodeId = None
     /\ n \in DOMAIN nodes
     /\ ~nodes[n].bleConnected)
    ~> (\/ \E i \in 1..Len(sent) : sent[i].type = "scan" /\ sent[i].to = n
        \/ handoffInProgress
        \/ activeNodeId # None
        \/ n \notin DOMAIN nodes)

\* C12: every scan broadcast leaves the handoff flagged with its retry timer
\* armed; while no node is active and the pool has members the handoff stays
\* armed, and the retry timer firing then clears the flag and broadcasts scan
\* to every member again; so as long as that lasts, scans recur forever.
HandoffArmed == handoffInProgress /\ handoffTimer /\ RetryPending(timers) = 1
Stalled == activeNodeId = None /\ DOMAIN nodes # {}
ScanBroadcast(q, members) ==
  /\ Len(SentOfType(q, "scan")) = Cardinality(members)
  /\ \A n \in members : \E i \in 1..Len(q) : q[i].type = "scan" /\ q[i].to = n
CommandsSent(q) == SentOfType(q, "command")
C13_FreshCommandIds ==
  [][/\ commandCounter' >= commandCounter
     /\ Len(CommandsSent(sent')) <= 1
     /\ CommandsSent(sent') # <<>> =>
          /\ CommandsSent(sent')[1].id = commandCounter + 1
          /\ commandCounter' = commandCounter + 1
          /\ commandCounter' \notin pendingCommands
          /\ pendingCommands' = pendingCommands \cup {commandCounter'}
     /\ CommandsSent(sent') = <<>> =>
          /\ commandCounter' = commandCounter
          /\ pendingCommands' \subseteq pendingCommands
     /\ pendingCommands' \subseteq 1..commandCounter'
    ]_vars

\* a second command got a new id after the first one was completed and the
\* active node was lost and another promoted
C13_Witness ==
  /\ commandCounter = 2
  /\ pendingCommands = {2}
  /\ Len(CommandsSent(sent)) = 1
  /\ sent[1].id = 2
  /\ sent[1].to # "A"
  /\ promises[1] = "true"

\* C14: a command's entry, its timer and its unsettled promise exist together;
\* the promise is settled once, by the command_result or by the timeout,
\* whichever comes first, in the step that removes the entry and the timer;
\* a command_result for an id that is no longer pending changes nothing.
C14_ResolvedOnce ==
  [][/\ \A id \in 1..Len(promises) :
          /\ promises[id] # "pending" => promises'[id] = promises[id]
          /\ (promises[id] = "pending" /\ promises'[id] # "pending") =>
               /\ id \in pendingCommands /\ id \notin pendingCommands'
               /\ id \in commandTimers /\ id \notin commandTimers'
               /\ CommandTimeout(id) => promises'[id] = "false"
               /\ \A w \in Links, ok \in BOOLEAN :
                    CommandResult(w, id, ok) =>
                      promises'[id] = (IF ok THEN "true" ELSE "false")
     /\ \A id \in 1..Len(promises') :
          /\ (id \in pendingCommands') = (promises'[id] = "pending")
          /\ (id \in commandTimers') = (promises'[id] = "pending")
     /\ \A w \in Links, id \in 1..MaxCommands, ok \in BOOLEAN :
          (CommandResult(w, id, ok) /\ id \notin pendingCommands) =>
            /\ promises' = promises
            /\ pendingCommands' = pendingCommands
            /\ commandTimers' = commandTimers
            /\ sent' = <<>>
    ]_vars

\* one command timed out and another was completed by its command_result
C14_Witness ==
  /\ Len(promises) = 2
  /\ promises[1] = "false"
  /\ promises[2] = "true"
  /\ pendingCommands = {}
  /\ commandTimers = {}
  /\ activeNodeId # None

\* C15: every pending command is eventually settled and its entry removed,
\* whatever happens to the node it was sent to, and in the end the table of
\* pending commands stays empty.
Settled(id) == id \in 1..Len(promises) /\ promises[id] \in {"true", "false"}
C15_CommandsResolve ==
  /\ \A id \in 1..MaxCommands :
       (id \in pendingCommands) ~> (id \notin pendingCommands /\ Settled(id))
  /\ <>[](pendingCommands = {})

\* a command timed out after the node it was sent to had left the pool
C15_Witness ==
  /\ Len(promises) >= 1
  /\ promises[1] = "false"
  /\ pendingCommands = {}
  /\ DOMAIN nodes = {}
  /\ activeNodeId = None

\* C16: a step that submits a normal command frame either arms one 300 ms
\* timer holding that frame (the first write) or is that timer firing (the
\* second write), and nothing else arms or removes such a timer, so the frame
\* is submitted exactly twice; a find frame is submitted with no timer armed,
\* and a battery query is written once with no timer armed.
C16_DoubleSend ==
  [][/\ Len(submitted') <= 1
     /\ submitted' = <<CommandFrame>> =>
          \/ /\ Len(resendTimers') = Len(resendTimers) + 1
             /\ SubSeq(resendTimers', 1, Len(resendTimers)) = resendTimers
             /\ resendTimers'[Len(resendTimers')].data = CommandFrame
          \/ /\ resendTimers # <<>>
             /\ Head(resendTimers).data = CommandFrame
             /\ resendTimers' = Tail(resendTimers)
     /\ submitted' = <<FindFrame>> => resendTimers' = resendTimers
     /\ submitted' = <<>> => resendTimers' = resendTimers
     /\ submitted' # <<>> => submitted'[1] \in {CommandFrame, FindFrame}
     /\ BatteryFrame \in Range(wrote') =>
          /\ wrote' = <<BatteryFrame>>
          /\ submitted' = <<>>
          /\ sent' = <<>>
     /\ (\A find \in BOOLEAN, ok \in BOOLEAN : ~SendCommand(find, ok)) =>
          Len(resendTimers') <= Len(resendTimers)
    ]_vars

\* the second write of a command went to the active node
C16_Witness ==
  /\ submitted = <<CommandFrame>>
  /\ resendTimers = <<>>
  /\ Len(CommandsSent(sent)) = 1
  /\ wrote = <<>>

\* C17: when the first write of a command went to an endpoint and the second
\* write goes to one, it is the same endpoint.
UsedEndpoint(w, q) ==
  IF w # <<>> THEN "local"
  ELSE IF CommandsSent(q) # <<>> THEN CommandsSent(q)[1].to
  ELSE None
C17_SameEndpoint ==
  [][(/\ submitted' # <<>>
      /\ resendTimers # <<>>
      /\ resendTimers' = Tail(resendTimers)
      /\ Head(resendTimers).first # None
      /\ UsedEndpoint(wrote', sent') # None)
     => UsedEndpoint(wrote', sent') = Head(resendTimers).first
    ]_vars

\* C18: a frame submitted while the local endpoint is connected is written
\* within the call; a command for the active node joins the end of the
\* messages on the way to its agent with an id above all of them, and an
\* agent writes the oldest message that reached it; so first writes keep the
\* order of the submissions on either path.
C18_SubmissionOrder ==
  [][/\ (submitted' # <<>> /\ txChar) =>
          /\ wrote' = submitted'
          /\ sent' = <<>>
          /\ wire' = wire
     /\ (submitted' # <<>> /\ ~txChar /\ activeNodeId # None) =>
          LET w == nodes[activeNodeId].ws
          IN  /\ wrote' = <<>>
              /\ links[w].state = "open" =>
                   /\ wire'[w] = Append(wire[w], commandCounter')
                   /\ \A j \in Range(wire[w]) : j < commandCounter'
              /\ \A v \in Links \ {w} : wire'[v] = wire[v]
     /\ \A w \in Links :
          (wire'[w] # wire[w] /\ submitted' = <<>> /\ links'[w].state # "idle") =>
            /\ wire[w] # <<>>
            /\ wire'[w] = Tail(wire[w])
            /\ agentWrote' \in {<<>>, <<[ws |-> w, id |-> Head(wire[w])]>>}
            /\ \A j \in Range(wire'[w]) : j > Head(wire[w])
     /\ agentWrote' # <<>> =>
          /\ Len(agentWrote') = 1
          /\ wire[agentWrote'[1].ws] # <<>>
          /\ agentWrote'[1].id = Head(wire[agentWrote'[1].ws])
    ]_vars

\* an agent wrote the first of two commands while the second was still on its way
C18_Witness ==
  \E w \in Links :
    /\ agentWrote = <<[ws |-> w, id |-> 1]>>
    /\ wire[w] = <<2>>

\* C19: a first message that is not an auth with the right token gets
\* auth_result false, closes the link and creates no entry; a link that was
\* rejected never gets an entry; and only links that authenticated have the
\* pool's handlers.
Rejected(w) == links[w].state = "unauth_closing" /\ conns[w].authResults > 0
BoundTo(ns, w) == {n \in DOMAIN ns : ns[n].ws = w}
C19_AuthGate ==
  [][\A w \in Links :
       /\ \A n \in NodeIds :
            (/\ links[w].state = "unauth"
             /\ ServerMessage(w, "other", n) \/ ServerMessage(w, "badtoken", n))
            => /\ conns'[w].authResults = 1
               /\ links'[w].state = "unauth_closing"
               /\ nodes' = nodes
       /\ Rejected(w) =>
            /\ BoundTo(nodes', w) = {}
            /\ links'[w].state \in {"unauth_closing", "idle"}
       /\ links'[w].state \in {"open", "closing"} => conns'[w].authenticated
    ]_vars

\* C20: over the lifetime of a link on which the coordinator acted (it
\* accepted it, rejected it or closed it on the auth timeout) exactly one
\* auth_result was sent when its close event arrives, and never more than one.
C20_OneAuthResult ==
  [][\A w \in Links :
       /\ conns'[w].authResults <= 1
       /\ (links[w].state \in {"unauth_closing", "open", "closing"}
           /\ links'[w].state = "idle")
          => conns[w].authResults = 1
    ]_vars

\* C21: a message that is not JSON, has no type or has a field of the wrong
\* type is dropped: on a link with or without authentication it changes no
\* state of the pool, sends nothing and leaves the link as it is.
PoolState == <<nodes, activeNodeId, handoffInProgress, handoffTimer, timers,
               pendingScanResults, pendingCommands, commandTimers, promises>>
C21_MalformedDiscarded ==
  [][\A w \in Links :
       (\/ \E raw \in RawMessages : Unparsed(w, raw)
        \/ \E v \in WrongTypedFlags : StatusWrongType(w, v)
        \/ \E n \in NodeIds : ServerMessage(w, "garbage", n))
       => /\ PoolState' = PoolState
          /\ sent' = <<>>
          /\ links'[w].state = links[w].state
    ]_vars

\* C22: whatever an authenticated node sends, a device list with a null entry
\* included, no handler and no timer callback of the coordinator ends with an
\* uncaught exception.
C22_NoPanic == ~crashed

\* C23: a ping tick removes the node whose last ping got no pong (with a
\* handoff if it was the active node), otherwise it sends a ping and marks the
\* node as awaiting; only a tick marks a node, and only a pong on the entry's
\* link clears the mark.  So a silent node goes at the second tick and a node
\* that answers each ping is never removed by a tick.
C23_PingLiveness ==
  [][\A n \in NodeIds :
       /\ (PingTick(n) /\ ~nodes[n].pongReceived) =>
            /\ n \notin DOMAIN nodes'
            /\ nodes[n].isActive => /\ hcall' # <<>>
                                    /\ activeNodeId' = None
       /\ (PingTick(n) /\ nodes[n].pongReceived) =>
            /\ n \in DOMAIN nodes'
            /\ nodes'[n] = [nodes[n] EXCEPT !.pongReceived = FALSE]
            /\ sent' = <<Msg(n, nodes[n].ws, "ping", 0)>>
       /\ (n \in DOMAIN nodes /\ n \in DOMAIN nodes' /\ nodes'[n].ws = nodes[n].ws) =>
            /\ (nodes[n].pongReceived /\ ~nodes'[n].pongReceived) => PingTick(n)
            /\ (~nodes[n].pongReceived /\ nodes'[n].pongReceived) => Pong(nodes[n].ws)
       /\ \A w \in Links :
            (Pong(w) /\ n \in DOMAIN nodes /\ nodes[n].ws = w) => nodes'[n].pongReceived
    ]_vars

\* the active node has just been pinged and has not answered yet
C23_Witness ==
  \E n \in DOMAIN nodes :
    /\ nodes[n].isActive
    /\ ~nodes[n].pongReceived
    /\ sent = <<Msg(n, nodes[n].ws, "ping", 0)>>

\* C24: a node from which nothing arrives is removed in the end even when no
\* ping tick runs (the stale timeout).
C24_StaleRemoved ==
  \A n \in NodeIds : (n \in DOMAIN nodes) ~> (n \notin DOMAIN nodes)

\* C25: the reconnect timer that leads to the k-th attempt in a row after the
\* link last opened (each of the earlier ones failed to open) has the delay
\* min(1000 * 2^(k-1), 30000) ms, and the stored delay is always within
\* 1000..30000.
C25_Backoff ==
  /\ agent.reconnectDelay >= INITIAL_RECONNECT_DELAY
  /\ agent.reconnectDelay <= MAX_RECONNECT_DELAY
  /\ agent.link = "waiting" =>
       /\ agent.attempt >= 1
       /\ agent.timer = Min(INITIAL_RECONNECT_DELAY * 2^(agent.attempt - 1),
                            MAX_RECONNECT_DELAY)

\* five attempts failed to open: the sixth is 30 s away, not 32 s
C25_Witness ==
  /\ agent.link = "waiting"
  /\ agent.attempt = 6
  /\ agent.timer = MAX_RECONNECT_DELAY

\* C26: the stored delay goes back to 1 s when auth_result with success true
\* arrives and at no other moment, so attempts that open and are refused keep
\* doubling it.
C26_ResetOnAuth ==
  [][/\ AgentAuthResult(TRUE) => agent'.reconnectDelay = INITIAL_RECONNECT_DELAY
     /\ agent'.reconnectDelay < agent.reconnectDelay => AgentAuthResult(TRUE)
    ]_vars

\* C27: the endpoint becomes ready only with the RX subscription of the
\* connection in place, and an attempt that fails, at whatever step, leaves it
\* not ready.
C27_ReadyNeedsBoth ==
  [][/\ (~IsConnected(dev) /\ IsConnected(dev')) => dev'.rx
     /\ \A i \in 1..MaxConnects : DevFail(i) => ~IsConnected(dev')
    ]_vars

\* C28: once disconnect() has returned and until the owner calls connect(),
\* the endpoint is not ready, no attempt starts and none completes.
C28_NoAutoReconnect ==
  [][(~dev.autoReconnect /\ ~dev.disconnecting /\ ~DevConnect) =>
       /\ ~IsConnected(dev')
       /\ Len(dev'.attempts) <= Len(dev.attempts)
       /\ \A k \in 1..Len(dev'.emitted) : dev'.emitted[k] # "connected"
    ]_vars

\* C29: a normal command is the frame AA 07 s v o BB; an integer level is
\* clamped into 0..100, a level that is missing or has no numeric value (its
\* conversion to a number fails) gives 0, and clamping a clamped level changes
\* nothing.
IsInteger(v) == v.type = "number" /\ ~v.nan
NonNumeric(v) == v.type = "undefined" \/ ToNumber(v).nan
ClampedInt(n) == IF n < 0 THEN 0 ELSE IF n > 100 THEN 100 ELSE n
LevelOk(v, byte) ==
  /\ byte \in 0..100
  /\ IsInteger(v) => byte = ClampedInt(v.val)
  /\ NonNumeric(v) => byte = 0
  /\ ClampKey(ClampKey(v)) = ClampKey(v)
C29_Encoding ==
  (encoded # NoFrame /\ ~Truthy(encoded.commands[Find])) =>
    /\ Len(encoded.frame) = 6
    /\ encoded.frame[1] = 170
    /\ encoded.frame[2] = 7
    /\ LevelOk(encoded.commands[Shock], encoded.frame[3])
    /\ LevelOk(encoded.commands[Vibro], encoded.frame[4])
    /\ LevelOk(encoded.commands[Sound], encoded.frame[5])
    /\ encoded.frame[6] = 187

\* (-1, 200, 50) was encoded as AA 07 00 64 32 BB
C29_Witness ==
  /\ encoded.commands = <<Num(-1), Num(200), Num(50), Missing>>
  /\ encoded.frame = <<170, 7, 0, 100, 50, 187>>

\* C30: the election that consumes the results of a handoff is run by the
\* timer that this handoff armed (scanDuration + 3 s after its scan), never by
\* the election timer of an earlier handoff: when an election finds results,
\* no election timer armed after its own is pending.
C30_ElectionTiming ==
  [][\A i \in 1..MaxTimers :
       (ElectTimer(i) /\ ~pendingScanResults.isNull) =>
         \A j \in (i + 1)..Len(timers) : timers[j].kind # "elect"
    ]_vars

\* C31: a scan_result is recorded only while a handoff is in progress: one
\* that arrives when the flag is clear, for instance after a promotion ended
\* the handoff early, leaves the recorded results as they were.
C31_ScanOnlyInHandoff ==
  [][\A w \in Links, d \in DeviceLists :
       (ScanResult(w, d) /\ ~handoffInProgress) =>
         pendingScanResults' = pendingScanResults
    ]_vars

\* C32: an election changes neither activeNodeId nor any isActive flag nor
\* the handoff flag nor the retry timer; it sends connect to its winner and
\* nothing without one, and leaves no recorded results behind. A node becomes
\* active only in the step that handles its status{bleConnected: true}.
C32_ElectOnlyConnects ==
  [][/\ \A i \in 1..MaxTimers :
          ElectTimer(i) =>
            /\ activeNodeId' = activeNodeId
            /\ DOMAIN nodes' = DOMAIN nodes
            /\ \A n \in DOMAIN nodes : nodes'[n] = nodes[n]
            /\ handoffInProgress' = handoffInProgress
            /\ handoffTimer' = handoffTimer
            /\ RetryPending(timers') = RetryPending(timers)
            /\ pendingScanResults'.isNull
            /\ emitted' = <<>>
            /\ IF pendingScanResults.isNull \/ Candidates = {}
               THEN sent' = <<>>
               ELSE sent' = <<Msg(Winner, nodes[Winner].ws, "connect", 0)>>
     /\ (activeNodeId' # activeNodeId /\ activeNodeId' # None) =>
          \E w \in Links :
            /\ Status(w, TRUE)
            /\ links[w].nodeId = activeNodeId'
    ]_vars

\* an election chose a winner: connect is sent, nobody is active, the
\* handoff is still in progress with its retry timer armed
C32_Witness ==
  /\ SentOfType(sent, "connect") # <<>>
  /\ activeNodeId = None
  /\ \A n \in DOMAIN nodes : ~nodes[n].isActive
  /\ handoffInProgress
  /\ RetryPending(timers) = 1
  /\ pendingScanResults.isNull

\* C36: triggerHandoff called with the flag clear on an empty pool, which is
\* what the removal of the only, active node does, emits no:active, sends no
\* scan, arms no timer and leaves activeNodeId none and the flag clear.
LastActiveRemoved ==
  /\ activeNodeId # None
  /\ DOMAIN nodes = {activeNodeId}
  /\ \/ activeNodeId \notin DOMAIN nodes'
     \/ nodes'[activeNodeId].ws # nodes[activeNodeId].ws
C36_EmptyPoolHandoff ==
  [][(LastActiveRemoved /\ hcall' = <<FALSE>>) =>
       /\ emitted' = <<Ev("no:active", None)>>
       /\ SentOfType(sent', "scan") = <<>>
       /\ timers' = timers
       /\ handoffTimer' = handoffTimer
       /\ pendingScanResults' = pendingScanResults
       /\ activeNodeId' = None
       /\ ~handoffInProgress'
    ]_vars

\* the only node, which was active, has just left a pool with no handoff in
\* progress
C36_Witness ==
  /\ DOMAIN nodes = {}
  /\ hcall = <<FALSE>>
  /\ emitted = <<Ev("no:active", None)>>
  /\ activeNodeId = None
  /\ ~handoffInProgress

\* C37: whenever the handoff flag is set, the retry timer that can clear it
\* is still armed.
C37_FlagHasRetry ==
  handoffInProgress =>
    \E i \in 1..Len(timers) : timers[i].kind = "retry" /\ timers[i].held

\* C38: connect is sent to a node only while no node is active, or to the
\* active node itself.
C38_ConnectOnlyWhenIdle ==
  [][\A k \in 1..Len(sent') :
       sent'[k].type = "connect" =>
         activeNodeId = None \/ sent'[k].to = activeNodeId
    ]_vars

\* C35: at most one connection attempt of an endpoint is in progress at any
\* time, whatever the interleaving of connect(), disconnect(), retry timers
\* and the device's disconnect events.
C35_OneAttempt == Len(dev.attempts) <= 1

\* C39: a command_result that carries the id of a pending command but comes
\* from a node other than the one the command was sent to leaves the command
\* pending and its promise unsettled.
C39_ResultFromTarget ==
  [][\A w \in Links, id \in 1..MaxCommands, success \in BOOLEAN :
       (/\ CommandResult(w, id, success)
        /\ id \in pendingCommands
        /\ \E t \in Links : /\ id \in Range(wire[t])
                            /\ links[t].nodeId # links[w].nodeId)
       => /\ pendingCommands' = pendingCommands
          /\ promises' = promises
    ]_vars

\* C40: destroy() leaves the pool quiescent: no entries, no active node,
\* every pending command resolved false and none pending, no handoff in
\* progress and no election or retry timer armed; and it sends no scan.
C40_DestroyQuiescent ==
  [][\A order \in SeqsUpTo(NodeIds, Cardinality(NodeIds)) :
       PoolDestroy(order) =>
         /\ DOMAIN nodes' = {}
         /\ activeNodeId' = None
         /\ pendingCommands' = {}
         /\ commandTimers' = {}
         /\ \A id \in pendingCommands : promises'[id] = "false"
         /\ ~handoffInProgress'
         /\ timers' = <<>>
         /\ SentOfType(sent', "scan") = <<>>
    ]_vars

\* C33: a battery or rssi message from a node that is not the active one
\* produces no pool-level event and resolves no pending request, although a
\* battery message still sets that node's lastBattery; one from the active
\* node produces exactly one pool-level event with the reported value, which
\* resolves the pending requests of its kind; and the pool emits battery and
\* rssi events in no other step.
Waiting(q, kind) == SelectSeq(q, LAMBDA r : r.kind = kind)
Answered(q, kind, v) ==
  [i \in 1..Len(Waiting(q, kind)) |-> [kind |-> kind, value |-> Value(v)]]
C33_OnlyActiveReports ==
  [][/\ \A w \in Links, level \in BatteryLevels :
          Battery(w, level) =>
            LET n == links[w].nodeId
            IN  /\ n \in DOMAIN nodes => nodes'[n].lastBattery = Value(level)
                /\ IF n = activeNodeId
                   THEN /\ emitted' = <<ValueEv("battery", level)>>
                        /\ answers' = Answered(requests, "battery", level)
                        /\ Waiting(requests', "battery") = <<>>
                   ELSE /\ emitted' = <<>>
                        /\ answers' = <<>>
                        /\ Len(requests') = Len(requests)
     /\ \A w \in Links, value \in Rssi :
          RssiValue(w, value) =>
            IF links[w].nodeId = activeNodeId
            THEN /\ emitted' = <<ValueEv("rssi", value)>>
                 /\ answers' = Answered(requests, "rssi", value)
                 /\ Waiting(requests', "rssi") = <<>>
            ELSE /\ emitted' = <<>>
                 /\ answers' = <<>>
                 /\ requests' = requests
                 /\ nodes' = nodes
     /\ \A k \in 1..Len(emitted') :
          emitted'[k].name \in {"battery", "rssi"} =>
            \E w \in Links :
              /\ links[w].nodeId = activeNodeId
              /\ \/ \E level \in BatteryLevels : Battery(w, level)
                 \/ \E value \in Rssi : RssiValue(w, value)
    ]_vars

\* the active node's battery report became the pool's battery event and
\* resolved the pending request, while the pool holds a different level
\* reported by a node that is not active
C33_Witness ==
  /\ activeNodeId # None
  /\ \E level \in BatteryLevels :
       /\ emitted = <<ValueEv("battery", level)>>
       /\ answers = <<[kind |-> "battery", value |-> Value(level)]>>
       /\ nodes[activeNodeId].lastBattery = Value(level)
       /\ \E n \in DOMAIN nodes :
            /\ n # activeNodeId
            /\ ~nodes[n].bleConnected
            /\ ~nodes[n].lastBattery.isNull
            /\ nodes[n].lastBattery # Value(level)

\* C34: for a command{id, data} the forwarder calls its endpoint's write once,
\* with the bytes data spells in hex; when the endpoint is not ready it
\* replies command_result{id, success: false} at once, otherwise the write
\* waits and, settling while the link has stayed open, is answered by exactly
\* one command_result with that id and the write's outcome; the forwarder
\* sends no command_result with another id and calls write for nothing else;
\* and every waiting write is answered or dropped in the end.
WellFormedHex(t) == Len(t) % 2 = 0 /\ \A k \in 1..Len(t) : t[k] < 16
PendingIds(a) == {a.writes[i].id : i \in 1..Len(a.writes)}
C34_CommandHandling ==
  /\ [][/\ \A id \in 1..MaxCommands, data \in HexStrings :
             AgentHandleCommand(id, data) =>
               /\ Len(agentWrote') = 1
               /\ agentWrote'[1].id = id
               /\ WellFormedHex(data) =>
                    /\ Len(agentWrote'[1].bytes) * 2 = Len(data)
                    /\ \A k \in 1..Len(agentWrote'[1].bytes) :
                         agentWrote'[1].bytes[k] = 16 * data[2 * k - 1] + data[2 * k]
               /\ IF dev.txChar
                  THEN /\ agentSent' = <<>>
                       /\ id \in PendingIds(agent')
                  ELSE /\ agentSent' = <<CommandResultMsg(id, FALSE)>>
                       /\ id \notin PendingIds(agent')
        /\ \A i \in 1..MaxWrites, ok \in BOOLEAN :
             (AgentWriteDone(i, ok) /\ agent.writes[i].stayed) =>
               /\ agentSent' = <<CommandResultMsg(agent.writes[i].id, ok)>>
               /\ agentWrote' = <<>>
               /\ agent.writes[i].id \notin PendingIds(agent')
        /\ \A k \in 1..Len(agentSent') :
             \/ agentSent'[k].id \in PendingIds(agent)
             \/ \E data \in HexStrings : AgentHandleCommand(agentSent'[k].id, data)
        /\ agentWrote' # <<>> =>
             \E id \in 1..MaxCommands, data \in HexStrings : AgentHandleCommand(id, data)
       ]_vars
  /\ \A id \in 1..MaxCommands :
       (id \in PendingIds(agent)) ~> (id \notin PendingIds(agent))

\* a write that waited while the link stayed open has settled and its
\* command_result is sent, while the write of another command still waits
C34_Witness ==
  /\ agent.link = "authed"
  /\ agentSent = <<CommandResultMsg(1, TRUE)>>
  /\ PendingIds(agent) = {2}
  /\ agent.writes[1].stayed
====
